---- MODULE Spec2Model ----
(***************************************************************************)
(* Model of librarium's dispatch engine (src/core/dispatcher.ts), of the   *)
(* exit code and the handle store written by the `run` command             *)
(* (src/commands/run.ts), and of the `status` command                      *)
(* (src/commands/status.ts) with the handle store of                       *)
(* src/core/async-manager.ts.                                              *)
(*                                                                         *)
(* Spec is one run; StatusSpec is one status command on a store left by    *)
(* earlier runs; RoundTripSpec is a run on one deep-research provider      *)
(* followed by a status command; LegacySpec is a run whose selection may   *)
(* name a legacy provider id; HttpSpec is one call of httpRequest (the     *)
(* HTTP client); ConfigSpec is the loading of the global config followed   *)
(* by the merge of the project and CLI layers (src/core/config.ts);        *)
(* PlugSpec is one call of initializeProviders with the loading of the     *)
(* custom providers (src/adapters/index.ts, src/adapters/custom.ts);       *)
(* ScriptSpec is one operation of a script provider (runScriptOperation);  *)
(* NormSpec applies normalizeUrl to a pair of urls or deduplicateSources   *)
(* to a list of citations; DiskSpec is a series of calls of safeWriteFile  *)
(* on one target.                                                          *)
(*                                                                         *)
(* One dispatch is modelled: the selection, the mode and maxParallel are   *)
(* drawn in Init; every provider call (submit, retrieve, execute, the      *)
(* fallback's execute) is in flight between the action that issues it and  *)
(* the action that delivers its outcome, which is drawn when it returns.   *)
(* The JavaScript engine is single-threaded: each action is one            *)
(* synchronous segment between two awaits. safeWriteFile may throw at      *)
(* every artifact write; the progress sink (run's spinner update) does not *)
(* throw.                                                                  *)
(***************************************************************************)
EXTENDS Integers, Sequences, FiniteSets, TLC

\* ---------------------------------------------------------------- bounds
\* longest selection (providerIds) explored
MaxSel == 2
\* largest defaults.maxParallel explored (0 stands for every value p-limit rejects)
MaxParallel == 2
\* most handles in async-tasks.json when the status command starts
MaxHandles == 2
\* most sleeps of the polling loop explored
MaxSleeps == 2
\* defaults.asyncTimeout, counted in sleeps of defaults.asyncPollInterval
AsyncTimeoutSleeps == 1

\* ---------------------------------------------------------------- fixture
NoId == "none"

\* ids that can be selected or named as fallback
Ids == {"d", "e", "g", "q", "u", "x"}

\* the provider registry after initialization: "x" is not registered
Registered == {"d", "e", "g", "q", "u"}

\* the ids of earlier releases: "l" is the former id of "e", "k" that of "d"
LegacyIds == {"l", "k"}

\* resolveProviderId(id): a legacy id is replaced by its canonical id
resolveProviderId(id) ==
    CASE id = "l" -> "e"
      [] id = "k" -> "d"
      [] OTHER    -> id

\* getProvider(id): the id of the provider the registry returns, NoId for none
getProvider(id) ==
    IF resolveProviderId(id) \in Registered THEN resolveProviderId(id) ELSE NoId

Tiers == {"deep-research", "ai-grounded", "raw-search"}

AsyncTaskStatus == {"pending", "running", "completed", "failed", "cancelled"}

Modes == {"sync", "async", "mixed"}

\* provider.tier of the registered providers
tierOf(id) ==
    CASE id = "d" -> "deep-research"
      [] id = "g" -> "ai-grounded"
      [] id = "q" -> "raw-search"
      [] OTHER    -> "deep-research"

\* ids with an entry in config.providers: "u" has none
Configured == {"d", "e", "g", "q", "x"}

\* config.providers[id].enabled
enabledOf(id) == id \in {"d", "e", "g", "x"}

\* the apiKey reference of config.providers[id] resolves to a non-empty value
keyResolves(id) == id \in {"d", "e", "q", "x"}

VARIABLES
    providerIds,   \* options.providerIds
    mode,          \* options.mode
    maxParallel,   \* config.defaults.maxParallel
    dCaps,         \* which optional operations provider "d" defines
    dFallback,     \* config.providers["d"].fallback
    phase,         \* idle, dispatching, returned, rejected, exited, failed
    pc,            \* per task: queued, submit, retrieve, execute, fallback, done
    queue,         \* p-limit's queue of tasks not yet started
    activeCount,   \* p-limit's activeCount
    reports,       \* dispatch's reports array
    asyncTasks,    \* dispatch's asyncTasks array
    events,        \* progress events delivered to onProgress, in order
    fbOf,          \* per task: the fallback id whose execute it awaits
    calls,         \* every provider call issued so far
    hist,          \* per task: the outcomes its provider calls returned
    owner,         \* per report: the task that pushed it
    exitCode,      \* process.exitCode set by run
    store,         \* the handles in async-tasks.json of the output directory
    optWait,       \* status --wait
    optRetrieve,   \* status --retrieve
    stPc,          \* status command: idle, poll, sleep, retrieve, done
    remaining,     \* the polling loop's list of handles (in memory)
    cursor,        \* position of the awaited call in remaining or retrieveList
    justCompleted, \* handles that completed during this wait
    retrieveList,  \* the handles the retrieval loop walks through
    files,         \* per provider: what its .md and .meta.json hold
    elapsed,       \* sleeps of the polling loop so far
    pollScript,    \* how far the poll results follow scenario S6's script
    retrieveLog,   \* every retrieve call of status that settled, in order
    hpc,           \* httpRequest: the await the call is at, or how it ended
    hasSignal,     \* httpRequest: options.signal is given
    aborted,       \* httpRequest: signal.aborted
    attempt,       \* httpRequest: the loop variable
    lastError,     \* httpRequest: the message of lastError
    response,      \* httpRequest: status of the response in hand (0: none)
    fetchCount,    \* calls of fetch so far
    delays,        \* the delays slept, in order
    attemptLog,    \* how every attempt that ended so far ended
    result,        \* what httpRequest returned or threw
    cpc,           \* config pipeline of run: start, loaded, merged
    file,          \* the parsed global config file
    loaded,        \* the Config loadConfig returned
    warnings,      \* the warnings of the migration, in order
    project,       \* the ProjectConfig loadProjectConfig returned, or null
    cliFlags,      \* the flags run collected from its options, or undefined
    merged,        \* the Config mergeConfigs returned
    plug,          \* initializeProviders: the registry and the loader's lists
    scriptOp,      \* runScriptOperation: the child, the timer and the promise
    norm,          \* deduplicateSources: the citations and the sources returned
    disk           \* safeWriteFile: the directory of the target and the outcome

vars == <<providerIds, mode, maxParallel, dCaps, dFallback, phase, pc, queue,
          activeCount, reports, asyncTasks, events, fbOf, calls, hist, owner,
          exitCode, store, optWait, optRetrieve, stPc, remaining, cursor,
          justCompleted, retrieveList, files, elapsed, pollScript, retrieveLog,
          hpc, hasSignal, aborted, attempt, lastError, response, fetchCount,
          delays, attemptLog, result,
          cpc, file, loaded, warnings, project, cliFlags, merged,
          plug, scriptOp, norm, disk>>

\* the variables of one call of httpRequest
httpVars == <<hpc, hasSignal, aborted, attempt, lastError, response, fetchCount,
              delays, attemptLog, result>>

\* the variables of the loading and merging of the configuration
confVars == <<cpc, file, loaded, warnings, project, cliFlags, merged>>

\* the variables of the components the commands call into
libVars == <<httpVars, confVars, plug, scriptOp, norm, disk>>

\* the variables of the status command, the handle store apart
stVars == <<optWait, optRetrieve, stPc, remaining, cursor, justCompleted,
            retrieveList, files, elapsed, pollScript, retrieveLog>>

\* the variables of one dispatch and of run
runVars == <<phase, pc, queue, activeCount, reports, asyncTasks, events, fbOf,
             calls, hist, owner, exitCode>>

cfgVars == <<providerIds, mode, maxParallel, dCaps, dFallback>>

Tasks == 1..Len(providerIds)

\* provider.submit / provider.retrieve are defined
hasSubmit(id) == (id = "d" /\ dCaps.submit) \/ id \in {"e", "g"}
hasRetrieve(id) == (id = "d" /\ dCaps.retrieve) \/ id \in {"e", "g"}

\* provider.poll is defined
hasPoll(id) == (id = "d" /\ dCaps.poll) \/ id = "e"

\* config.providers[id]?.fallback
fallbackOf(id) ==
    CASE id = "d" -> dFallback
      [] id = "g" -> "q"
      [] id = "q" -> "d"
      [] OTHER    -> NoId

\* sequences over S of length 0..n
RECURSIVE SeqsUpTo(_, _)
SeqsUpTo(S, n) ==
    IF n = 0 THEN {<<>>}
    ELSE LET shorter == SeqsUpTo(S, n - 1)
         IN shorter \cup {Append(q, x) : q \in {t \in shorter : Len(t) = n - 1}, x \in S}

Contains(seq, x) == \E k \in 1..Len(seq) : seq[k] = x


\* ---------------------------------------------------------------- records
\* error strings: the not-found and not-enabled texts of dispatch, the message
\* of an exception thrown by a provider, the error field of a returned result,
\* and the message of an exception thrown by safeWriteFile
ErrNotFound == "not found"
ErrNotEnabled == "Provider not enabled"
ErrThrown == "boom"
ErrResult == "API returned 401"
ErrWrite == "EIO"
NoErr == "none"

\* what a provider call can deliver
SubmitOutcomes == AsyncTaskStatus \cup {"throw"}
ResultOutcomes == {"ok", "error", "throw"}

Report(id, tier, status, error, fallbackFor) ==
    [id |-> id, tier |-> tier, status |-> status, error |-> error,
     fallbackFor |-> fallbackFor]

Event(providerId, event, reportId) ==
    [providerId |-> providerId, event |-> event, report |-> reportId]

Call(op, id, task, role) == [op |-> op, id |-> id, task |-> task, role |-> role]

\* an AsyncTaskHandle; completedAt and lastPolledAt: whether the field is set
Handle(id, taskId, status) ==
    [provider |-> id, taskId |-> taskId, status |-> status,
     outputDir |-> "outputDir", completedAt |-> FALSE, lastPolledAt |-> FALSE]

\* the taskId the provider of task i issues: a provider numbers its tasks
taskIdOf(i) == Cardinality({j \in 1..i : providerIds[j] = providerIds[i]})

NoHist ==
    [submit |-> "none", retrieve |-> "none", retrieveWrite |-> "none",
     execute |-> "none", executeWrite |-> "none",
     fallback |-> "none", fallbackWrite |-> "none"]

WriteOutcome(o, w) == IF o = "throw" THEN "none" ELSE IF w THEN "ok" ELSE "fail"

\* the dispatch state as one record, for the operators below
St ==
    [pc |-> pc, queue |-> queue, activeCount |-> activeCount, reports |-> reports,
     asyncTasks |-> asyncTasks, events |-> events, fbOf |-> fbOf, calls |-> calls,
     hist |-> hist, owner |-> owner]

Commit(s) ==
    /\ pc' = s.pc
    /\ queue' = s.queue
    /\ activeCount' = s.activeCount
    /\ reports' = s.reports
    /\ asyncTasks' = s.asyncTasks
    /\ events' = s.events
    /\ fbOf' = s.fbOf
    /\ calls' = s.calls
    /\ hist' = s.hist
    /\ owner' = s.owner

\* reports.push(report) by task i
Push(s, i, report) ==
    [s EXCEPT !.reports = Append(@, report), !.owner = Append(@, i)]

\* onProgress?.(event)
Emit(s, event) == [s EXCEPT !.events = Append(@, event)]

\* ---------------------------------------------------------------- p-limit
\* pLimit(concurrency) throws a TypeError unless concurrency is an integer >= 1
ValidConcurrency(n) == n >= 1

\* (variant: the mode is not consulted)
UsesSubmit_IgnoresMode(id) == tierOf(id) = "deep-research" /\ hasSubmit(id)

\* the condition under which the task takes the async path
UsesSubmit(id) == tierOf(id) = "deep-research" /\ mode # "sync" /\ hasSubmit(id)

\* (variant: the started event is emitted before the registry and the
\* configuration are consulted)
StartTask_StartedFirst(s, i) ==
    LET id == providerIds[i]
        s1 == Emit(s, Event(id, "started", NoId))
    IN
    IF getProvider(id) = NoId
    THEN Push([s1 EXCEPT !.pc[i] = "done"], i,
              Report(id, "raw-search", "error", ErrNotFound, NoId))
    ELSE IF ~(id \in Configured /\ enabledOf(id))
    THEN Push([s1 EXCEPT !.pc[i] = "done"], i,
              Report(id, tierOf(getProvider(id)), "skipped", ErrNotEnabled, NoId))
    ELSE LET op == IF UsesSubmit(id) THEN "submit" ELSE "execute" IN
         [s1 EXCEPT !.pc[i] = op,
                    !.activeCount = @ + 1,
                    !.calls = @ \cup {Call(op, id, i, "primary")}]

\* A task leaves the queue and runs up to its first await: the not-found and
\* not-enabled returns, the started event, then the call of submit or execute.
StartTask(s, i) ==
    LET id == providerIds[i] IN
    IF getProvider(id) = NoId
    THEN Push([s EXCEPT !.pc[i] = "done"], i,
              Report(id, "raw-search", "error", ErrNotFound, NoId))
    ELSE IF ~(id \in Configured /\ enabledOf(id))
    THEN Push([s EXCEPT !.pc[i] = "done"], i,
              Report(id, tierOf(getProvider(id)), "skipped", ErrNotEnabled, NoId))
    ELSE LET op == IF UsesSubmit(id) THEN "submit" ELSE "execute" IN
         Emit([s EXCEPT !.pc[i] = op,
                        !.activeCount = @ + 1,
                        !.calls = @ \cup {Call(op, id, i, "primary")}],
              Event(id, "started", NoId))

\* (variant: every queued task is started, whatever the number of busy slots)
RECURSIVE Drain_Unbounded(_)
Drain_Unbounded(s) ==
    IF s.queue # <<>>
    THEN Drain_Unbounded(StartTask([s EXCEPT !.queue = Tail(@)], Head(s.queue)))
    ELSE s

\* p-limit starts queued tasks, oldest first, while a slot is free
RECURSIVE Drain(_)
Drain(s) ==
    IF s.queue # <<>> /\ s.activeCount < maxParallel
    THEN Drain(StartTask([s EXCEPT !.queue = Tail(@)], Head(s.queue)))
    ELSE s

\* a task's promise settles: its slot is released and the queue is served
Finish(s, i) == Drain([s EXCEPT !.pc[i] = "done", !.activeCount = @ - 1])

\* ---------------------------------------------------------------- fallback
\* (variant: a fallback that is itself selected is not ruled out)
FallbackEligible_NoSelectionCheck(id) ==
    LET fallbackId == fallbackOf(id) IN
    /\ fallbackId # NoId
    /\ fallbackId \in Registered
    /\ fallbackId \in Configured /\ keyResolves(fallbackId)

\* (variant: the fallback's API key is not checked)
FallbackEligible_NoKeyCheck(id) ==
    LET fallbackId == fallbackOf(id) IN
    /\ fallbackId # NoId
    /\ fallbackId \in Registered
    /\ fallbackId \in Configured
    /\ ~Contains(providerIds, fallbackId)

\* the four conditions of tryFallback under which the fallback is run
FallbackEligible(id) ==
    LET fallbackId == fallbackOf(id) IN
    /\ fallbackId # NoId
    /\ fallbackId \in Registered
    /\ fallbackId \in Configured /\ keyResolves(fallbackId)
    /\ ~Contains(providerIds, fallbackId)

\* tryFallback up to the await of the fallback's execute
tryFallback(s, i) ==
    LET id == providerIds[i]
        fallbackId == fallbackOf(id)
    IN IF FallbackEligible(id)
       THEN Emit([s EXCEPT !.pc[i] = "fallback",
                           !.fbOf[i] = fallbackId,
                           !.calls = @ \cup {Call("execute", fallbackId, i, "fallback")}],
                 Event(fallbackId, "fallback-started", id))
       ELSE Finish(s, i)

\* an exception reaches the catch around a provider call and its artifact
\* writes: the call threw, or safeWriteFile threw
Throws(o, w) == o = "throw" \/ ~w

\* (variant: a returned result that carries an error is treated as a throw)
ExecuteThrows_OnErrorResult(o, w) == o # "ok" \/ ~w

\* the catch of the sync execution is entered, where the fallback is attempted:
\* a result that carries an error is returned normally and does not enter it
ExecuteThrows(o, w) == o = "throw" \/ ~w

\* the sync execution is entered: provider.execute is called
CallExecute(s, i) ==
    [s EXCEPT !.pc[i] = "execute",
              !.calls = @ \cup {Call("execute", providerIds[i], i, "primary")}]

\* ---------------------------------------------------------------- reports
\* e instanceof Error ? e.message : String(e)
ThrownMessage(o) == IF o = "throw" THEN ErrThrown ELSE ErrWrite

StatusOfResult(o) == IF o = "error" THEN "error" ELSE "success"
ErrorOfResult(o) == IF o = "error" THEN ErrResult ELSE NoErr

OkStatuses == {"success", "async-pending"}

\* the number of reports the success count is compared with: reports.length
CountedReports(rs) == Len(rs)

\* the exit code run derives from the reports
ExitCodeOf(rs) ==
    LET successCount == Cardinality({k \in 1..Len(rs) : rs[k].status \in OkStatuses}) IN
    IF successCount = 0 THEN 2
    ELSE IF successCount < CountedReports(rs) THEN 1
    ELSE 0

\* ---------------------------------------------------------------- Init
NoFiles == [id \in Ids |-> [md |-> "none", meta |-> "none"]]

\* no request is made
NoResult == [kind |-> "none", status |-> 0, size |-> 0, error |-> "none"]

HttpIdle ==
    /\ hpc = "off"
    /\ hasSignal = FALSE
    /\ aborted = FALSE
    /\ attempt = 0
    /\ lastError = "none"
    /\ response = 0
    /\ fetchCount = 0
    /\ delays = <<>>
    /\ attemptLog = <<>>
    /\ result = NoResult

\* no configuration is loaded
NoConfig == [defaults |-> <<>>, providers |-> <<>>, groups |-> <<>>]

ConfigIdle ==
    /\ cpc = "off"
    /\ file = NoConfig
    /\ loaded = NoConfig
    /\ warnings = <<>>
    /\ project = [kind |-> "null"]
    /\ cliFlags = [kind |-> "undefined"]
    /\ merged = NoConfig

\* no provider is initialized, no script runs, nothing is normalized or written
Off == [pc |-> "off"]

PlugIdle == plug = Off

ScriptIdle == scriptOp = Off

NormIdle == norm = Off

DiskIdle == disk = Off

\* the components the commands call into are at rest
LibIdle == HttpIdle /\ ConfigIdle /\ PlugIdle /\ ScriptIdle /\ NormIdle /\ DiskIdle

\* the status command has not been started
StatusIdle ==
    /\ optWait = FALSE
    /\ optRetrieve = FALSE
    /\ stPc = "idle"
    /\ remaining = <<>>
    /\ cursor = 0
    /\ justCompleted = <<>>
    /\ retrieveList = <<>>
    /\ files = NoFiles
    /\ elapsed = 0
    /\ pollScript = 0
    /\ retrieveLog = <<>>

CapsChoices ==
    {[submit |-> TRUE, retrieve |-> TRUE, poll |-> TRUE],
     [submit |-> TRUE, retrieve |-> FALSE, poll |-> TRUE],
     [submit |-> FALSE, retrieve |-> FALSE, poll |-> TRUE]}

\* The capabilities and the fallback of "d" are read only by a task of "d":
\* when "d" is not selected they are fixed, which removes duplicate runs only.
InitWith(selections) ==
    /\ providerIds \in selections
    /\ mode \in Modes
    /\ maxParallel \in 0..MaxParallel
    /\ dCaps \in CapsChoices
    /\ dFallback \in Ids \cup {NoId}
    /\ ~Contains(providerIds, "d") => (dCaps.submit /\ dCaps.retrieve /\ dFallback = NoId)
    /\ phase = "idle"
    /\ pc = [i \in Tasks |-> "queued"]
    /\ queue = <<>>
    /\ activeCount = 0
    /\ reports = <<>>
    /\ asyncTasks = <<>>
    /\ events = <<>>
    /\ fbOf = [i \in Tasks |-> NoId]
    /\ calls = {}
    /\ hist = [i \in Tasks |-> NoHist]
    /\ owner = <<>>
    /\ exitCode = -1
    /\ store = <<>>
    /\ StatusIdle
    /\ LibIdle

Init == InitWith(SeqsUpTo(Ids, MaxSel))

\* a run whose selection is drawn from a legacy id, its canonical id and a
\* provider with a fallback, on a config that was loaded (and so migrated)
LegacyInit == InitWith(SeqsUpTo({"l", "e", "g"}, MaxSel))

\* ---------------------------------------------------------------- actions
\* run with an empty selection: "No providers selected", exit code 2
RunNoProviders ==
    /\ phase = "idle"
    /\ Len(providerIds) = 0
    /\ phase' = "failed"
    /\ exitCode' = 2
    /\ UNCHANGED <<libVars, cfgVars, pc, queue, activeCount, reports, asyncTasks, events,
                   fbOf, calls, hist, owner, store, stVars>>

\* dispatch is called with a concurrency p-limit rejects: the promise rejects
DispatchReject ==
    /\ phase = "idle"
    /\ Len(providerIds) > 0
    /\ ~ValidConcurrency(maxParallel)
    /\ phase' = "rejected"
    /\ UNCHANGED <<libVars, cfgVars, pc, queue, activeCount, reports, asyncTasks, events,
                   fbOf, calls, hist, owner, exitCode, store, stVars>>

\* dispatch is called: every id is enqueued and the first tasks are started
DispatchCall ==
    /\ phase = "idle"
    /\ Len(providerIds) > 0
    /\ ValidConcurrency(maxParallel)
    /\ phase' = "dispatching"
    /\ Commit(Drain([St EXCEPT !.queue = [i \in Tasks |-> i]]))
    /\ UNCHANGED <<libVars, cfgVars, exitCode, store, stVars>>

\* (variant: the handle is put in front of the list)
PushHandle_Front(s, handle) == [s EXCEPT !.asyncTasks = <<handle>> \o @]

\* asyncTasks.push(handle)
PushHandle(s, handle) == [s EXCEPT !.asyncTasks = Append(@, handle)]

\* provider.submit settles
SubmitReturn(i, o) ==
    /\ phase = "dispatching"
    /\ pc[i] = "submit"
    /\ LET id == providerIds[i]
           s0 == [St EXCEPT !.hist[i].submit = o]
       IN Commit(
            IF o = "throw"
            THEN CallExecute(s0, i)
            ELSE IF o \in {"completed", "failed"} /\ hasRetrieve(id)
            THEN [s0 EXCEPT !.pc[i] = "retrieve",
                            !.calls = @ \cup {Call("retrieve", id, i, "primary")}]
            ELSE Finish(Emit(Push(PushHandle(s0, Handle(id, taskIdOf(i), o)), i,
                                  Report(id, tierOf(id), "async-pending", NoErr, NoId)),
                             Event(id, "async-submitted", NoId)), i))
    /\ UNCHANGED <<libVars, cfgVars, phase, exitCode, store, stVars>>

\* provider.retrieve settles (w: both artifact writes succeed)
RetrieveReturn(i, o, w) ==
    /\ phase = "dispatching"
    /\ pc[i] = "retrieve"
    /\ o = "throw" => w
    /\ LET id == providerIds[i]
           s0 == [St EXCEPT !.hist[i].retrieve = o,
                            !.hist[i].retrieveWrite = WriteOutcome(o, w)]
       IN Commit(
            IF ~Throws(o, w)
            THEN Finish(Emit(Push(s0, i, Report(id, tierOf(id), StatusOfResult(o),
                                                ErrorOfResult(o), NoId)),
                             Event(id, "completed", id)), i)
            ELSE CallExecute(s0, i))
    /\ UNCHANGED <<libVars, cfgVars, phase, exitCode, store, stVars>>

\* provider.execute settles (w: both artifact writes succeed)
ExecuteReturn(i, o, w) ==
    /\ phase = "dispatching"
    /\ pc[i] = "execute"
    /\ o = "throw" => w
    /\ LET id == providerIds[i]
           s0 == [St EXCEPT !.hist[i].execute = o,
                            !.hist[i].executeWrite = WriteOutcome(o, w)]
       IN Commit(
            IF ~ExecuteThrows(o, w)
            THEN Finish(Emit(Push(s0, i, Report(id, tierOf(id), StatusOfResult(o),
                                                ErrorOfResult(o), NoId)),
                             Event(id, "completed", id)), i)
            ELSE tryFallback(Emit(Push(s0, i, Report(id, tierOf(id), "error",
                                                     ThrownMessage(o), NoId)),
                                  Event(id, "error", NoId)), i))
    /\ UNCHANGED <<libVars, cfgVars, phase, exitCode, store, stVars>>

\* (variant: fallbackFor is left out of the fallback's report)
FallbackReport_NoFallbackFor(fallbackId, originalId, o, w) ==
    IF ~Throws(o, w)
    THEN Report(fallbackId, tierOf(fallbackId), StatusOfResult(o), ErrorOfResult(o), NoId)
    ELSE Report(fallbackId, tierOf(fallbackId), "error", ThrownMessage(o), NoId)

\* the report executeFallback returns
FallbackReport(fallbackId, originalId, o, w) ==
    IF ~Throws(o, w)
    THEN Report(fallbackId, tierOf(fallbackId), StatusOfResult(o), ErrorOfResult(o), originalId)
    ELSE Report(fallbackId, tierOf(fallbackId), "error", ThrownMessage(o), originalId)

\* (variant: a failed fallback's own fallback is followed)
recordFallback_FollowsChain(s, i, fallbackReport) ==
    LET next == fallbackOf(fallbackReport.id)
        s1 == Emit(Push(s, i, fallbackReport),
                   IF fallbackReport.status = "success"
                   THEN Event(fallbackReport.id, "completed", fallbackReport.id)
                   ELSE Event(fallbackReport.id, "error", NoId))
    IN IF /\ fallbackReport.status = "error"
          /\ next # NoId
          /\ next \in Registered
          /\ next \in Configured /\ keyResolves(next)
          /\ ~Contains(providerIds, next)
       THEN Emit([s1 EXCEPT !.fbOf[i] = next,
                            !.calls = @ \cup {Call("execute", next, i, "fallback")}],
                 Event(next, "fallback-started", fallbackReport.id))
       ELSE Finish(s1, i)

\* the catch block after tryFallback returned a report: the report is pushed,
\* its event is emitted and the task ends; the fallback's own fallback is not
\* looked at
recordFallback(s, i, fallbackReport) ==
    Finish(Emit(Push(s, i, fallbackReport),
                IF fallbackReport.status = "success"
                THEN Event(fallbackReport.id, "completed", fallbackReport.id)
                ELSE Event(fallbackReport.id, "error", NoId)), i)

\* the fallback's execute settles (w: both artifact writes succeed)
FallbackReturn(i, o, w) ==
    /\ phase = "dispatching"
    /\ pc[i] = "fallback"
    /\ o = "throw" => w
    /\ LET fallbackReport == FallbackReport(fbOf[i], providerIds[i], o, w)
           s0 == [St EXCEPT !.hist[i].fallback = o,
                            !.hist[i].fallbackWrite = WriteOutcome(o, w)]
       IN Commit(recordFallback(s0, i, fallbackReport))
    /\ UNCHANGED <<libVars, cfgVars, phase, exitCode, store, stVars>>

\* Promise.allSettled resolves: dispatch returns {reports, asyncTasks}
DispatchReturn ==
    /\ phase = "dispatching"
    /\ \A i \in Tasks : pc[i] = "done"
    /\ phase' = "returned"
    /\ UNCHANGED <<libVars, cfgVars, pc, queue, activeCount, reports, asyncTasks, events,
                   fbOf, calls, hist, owner, exitCode, store, stVars>>

\* what the writes of run after dispatch do: all succeed; sources.json or
\* async-tasks.json cannot be written; run.json or summary.md cannot
RunIoOutcomes == {"ok", "failEarly", "failLate"}

\* run after dispatch: async-tasks.json is saved when there are handles, the
\* exit code is derived from the reports; a rejected dispatch or a failing
\* write is caught: exit code 2
RunFinish(io) ==
    /\ phase \in {"returned", "rejected"}
    /\ phase = "rejected" => io = "ok"
    /\ phase' = IF phase = "rejected" \/ io # "ok" THEN "failed" ELSE "exited"
    /\ exitCode' = IF phase = "rejected" \/ io # "ok" THEN 2 ELSE ExitCodeOf(reports)
    /\ store' = IF phase = "returned" /\ io # "failEarly" /\ Len(asyncTasks) > 0
                THEN asyncTasks
                ELSE store
    /\ UNCHANGED <<libVars, cfgVars, pc, queue, activeCount, reports, asyncTasks, events,
                   fbOf, calls, hist, owner, stVars>>

Next ==
    \/ RunNoProviders
    \/ DispatchReject
    \/ DispatchCall
    \/ \E i \in Tasks, o \in SubmitOutcomes : SubmitReturn(i, o)
    \/ \E i \in Tasks, o \in ResultOutcomes, w \in BOOLEAN : RetrieveReturn(i, o, w)
    \/ \E i \in Tasks, o \in ResultOutcomes, w \in BOOLEAN : ExecuteReturn(i, o, w)
    \/ \E i \in Tasks, o \in ResultOutcomes, w \in BOOLEAN : FallbackReturn(i, o, w)
    \/ DispatchReturn
    \/ \E io \in RunIoOutcomes : RunFinish(io)

Spec == Init /\ [][Next]_vars

LegacySpec == LegacyInit /\ [][Next]_vars

\* ================================================================ status
\* The status command (commands/status.ts) on one output directory, with the
\* handle store of core/async-manager.ts. Each action is one synchronous
\* segment between two awaits (a poll, a sleep, a retrieve).
PollOutcomes == AsyncTaskStatus \cup {"throw"}

IsActive(h) == h.status \in {"pending", "running"}

IsCompleted(h) == h.status = "completed"

\* getProvider(id)?.poll and getProvider(id)?.retrieve are defined
canPoll(id) == id \in Registered /\ hasPoll(id)
canRetrieve(id) == id \in Registered /\ hasRetrieve(id)

\* tasks.findIndex((t) => t.taskId === taskId), 0 when there is none
findIndex(tasks, taskId) ==
    IF \E k \in 1..Len(tasks) : tasks[k].taskId = taskId
    THEN CHOOSE k \in 1..Len(tasks) :
             /\ tasks[k].taskId = taskId
             /\ \A j \in 1..(k - 1) : tasks[j].taskId # taskId
    ELSE 0

\* updateAsyncTask with updates {status, completedAt} (terminal) or
\* {status, lastPolledAt}: the store after the call
updateAsyncTask(tasks, taskId, status, terminal) ==
    LET index == findIndex(tasks, taskId) IN
    IF index = 0 THEN tasks
    ELSE [tasks EXCEPT ![index] =
             IF terminal
             THEN [@ EXCEPT !.status = status, !.completedAt = TRUE]
             ELSE [@ EXCEPT !.status = status, !.lastPolledAt = TRUE]]

\* (variant: the handle is not removed)
removeTask_Keep(tasks, taskId) == tasks

\* tasks.filter((t) => t.taskId !== taskId)
RECURSIVE removeTask(_, _)
removeTask(tasks, taskId) ==
    IF tasks = <<>> THEN <<>>
    ELSE IF Head(tasks).taskId = taskId THEN removeTask(Tail(tasks), taskId)
    ELSE <<Head(tasks)>> \o removeTask(Tail(tasks), taskId)

\* the state of the status command as one record
Ss ==
    [store |-> store, stPc |-> stPc, remaining |-> remaining, cursor |-> cursor,
     justCompleted |-> justCompleted, retrieveList |-> retrieveList,
     files |-> files, elapsed |-> elapsed, pollScript |-> pollScript,
     retrieveLog |-> retrieveLog]

CommitS(s) ==
    /\ store' = s.store
    /\ stPc' = s.stPc
    /\ remaining' = s.remaining
    /\ cursor' = s.cursor
    /\ justCompleted' = s.justCompleted
    /\ retrieveList' = s.retrieveList
    /\ files' = s.files
    /\ elapsed' = s.elapsed
    /\ pollScript' = s.pollScript
    /\ retrieveLog' = s.retrieveLog

\* the retrieval loop from position k up to the next await: retrieveTask
\* returns false at once for a provider without retrieve
RECURSIVE RetrieveFrom(_, _)
RetrieveFrom(s, k) ==
    IF k > Len(s.retrieveList) THEN [s EXCEPT !.stPc = "done", !.cursor = 0]
    ELSE IF ~canRetrieve(s.retrieveList[k].provider) THEN RetrieveFrom(s, k + 1)
    ELSE [s EXCEPT !.stPc = "retrieve", !.cursor = k]

\* the end of a sweep: the handles still pending or running are kept; the
\* loop sleeps when some are left, else the just-completed ones are retrieved
EndSweep(s) ==
    LET left == SelectSeq(s.remaining, IsActive) IN
    IF left # <<>>
    THEN [s EXCEPT !.remaining = left, !.stPc = "sleep", !.cursor = 0]
    ELSE RetrieveFrom([s EXCEPT !.remaining = <<>>,
                                !.retrieveList = s.justCompleted], 1)

\* a sweep from position k up to the next await: a handle whose provider has
\* no poll is marked failed in memory
RECURSIVE PollFrom(_, _)
PollFrom(s, k) ==
    IF k > Len(s.remaining) THEN EndSweep(s)
    ELSE IF ~canPoll(s.remaining[k].provider)
    THEN PollFrom([s EXCEPT !.remaining[k].status = "failed"], k + 1)
    ELSE [s EXCEPT !.stPc = "poll", !.cursor = k]

\* the poll results of scenario S6, in order
S6Script == <<"running", "running", "completed">>

OffScript == Len(S6Script) + 1

\* pollScript after one more poll settled with r (w: its store update was
\* written): the number of polls so far when their results are the first ones
\* of S6Script and each was recorded, OffScript otherwise
ScriptAfter(n, r, w) ==
    IF n < Len(S6Script) /\ r = S6Script[n + 1] /\ w THEN n + 1 ELSE OffScript

\* one retrieve call that settled
RetrieveEntry(h, o, n) ==
    [provider |-> h.provider, taskId |-> h.taskId, result |-> o, writes |-> n]

\* status is started while no run is in progress: the handles are gathered,
\* then the listing, the polling loop (--wait) or the retrieval loop
\* (--retrieve without --wait) is entered
StatusStart(wait, retrieve) ==
    /\ stPc = "idle"
    /\ phase \in {"idle", "exited", "failed"}
    /\ optWait' = wait
    /\ optRetrieve' = retrieve
    /\ LET pendingTasks == SelectSeq(store, IsActive)
           completedTasks == SelectSeq(store, IsCompleted)
       IN CommitS(
            IF Len(pendingTasks) + Len(completedTasks) = 0 \/ (~wait /\ ~retrieve)
            THEN [Ss EXCEPT !.stPc = "done"]
            ELSE IF wait
            THEN PollFrom([Ss EXCEPT !.remaining = pendingTasks], 1)
            ELSE RetrieveFrom([Ss EXCEPT !.retrieveList = completedTasks], 1))
    /\ UNCHANGED <<libVars, cfgVars, runVars>>

\* provider.poll settles with result r (w: the write of the store succeeds)
PollReturn(r, w) ==
    /\ stPc = "poll"
    /\ (r = "throw" \/ findIndex(store, remaining[cursor].taskId) = 0) => w
    /\ LET task == remaining[cursor]
           s0 == [Ss EXCEPT !.pollScript = ScriptAfter(@, r, w)]
       IN CommitS(
            IF r = "throw" \/ ~w
            THEN PollFrom(s0, cursor + 1)
            ELSE IF r \in {"completed", "failed"}
            THEN PollFrom(
                   [s0 EXCEPT !.store = updateAsyncTask(@, task.taskId, r, TRUE),
                              !.remaining[cursor].status = r,
                              !.justCompleted =
                                  IF r = "completed"
                                  THEN Append(@, [task EXCEPT !.status = r])
                                  ELSE @],
                   cursor + 1)
            ELSE PollFrom(
                   [s0 EXCEPT !.store = updateAsyncTask(@, task.taskId, r, FALSE)],
                   cursor + 1))
    /\ UNCHANGED <<libVars, cfgVars, runVars, optWait, optRetrieve>>

\* the sleep of asyncPollInterval between two sweeps is over
SleepReturn ==
    /\ stPc = "sleep"
    /\ elapsed < MaxSleeps
    /\ CommitS(PollFrom([Ss EXCEPT !.elapsed = @ + 1], 1))
    /\ UNCHANGED <<libVars, cfgVars, runVars, optWait, optRetrieve>>

\* provider.retrieve of retrieveTask settles with outcome o; n of the three
\* writes that follow succeed, in their order: <id>.md, <id>.meta.json, the store
RetrieveTaskReturn(o, n) ==
    /\ stPc = "retrieve"
    /\ o = "throw" => n = 3
    /\ LET task == retrieveList[cursor]
           s0 == [Ss EXCEPT !.retrieveLog = Append(@, RetrieveEntry(task, o, n))]
           s1 == IF o # "throw" /\ n >= 1
                 THEN [s0 EXCEPT !.files[task.provider].md = o] ELSE s0
           s2 == IF o # "throw" /\ n >= 2
                 THEN [s1 EXCEPT !.files[task.provider].meta = o] ELSE s1
           s3 == IF o # "throw" /\ n = 3
                 THEN [s2 EXCEPT !.store = removeTask(@, task.taskId)] ELSE s2
       IN CommitS(RetrieveFrom(s3, cursor + 1))
    /\ UNCHANGED <<libVars, cfgVars, runVars, optWait, optRetrieve>>

StatusNext ==
    \/ \E wait, retrieve \in BOOLEAN : StatusStart(wait, retrieve)
    \/ \E r \in PollOutcomes, w \in BOOLEAN : PollReturn(r, w)
    \/ SleepReturn
    \/ \E o \in ResultOutcomes, n \in 0..3 : RetrieveTaskReturn(o, n)

\* the providers of the handles found in the store: "d" (with a poll or a
\* retrieve operation), "e" (with both) and "x" (no longer registered)
HandleProviders == {"d", "e", "x"}

StatusCaps ==
    {[submit |-> TRUE, retrieve |-> TRUE, poll |-> FALSE],
     [submit |-> TRUE, retrieve |-> FALSE, poll |-> TRUE]}

\* a handle as an earlier run or an earlier status left it in the store
StoredHandles ==
    {[Handle(id, t, st) EXCEPT !.completedAt = st \in {"completed", "failed"}] :
        id \in HandleProviders, t \in 1..MaxHandles, st \in AsyncTaskStatus}

\* the stores of at most MaxHandles handles; taskId is unique within a provider
Stores ==
    {st \in SeqsUpTo(StoredHandles, MaxHandles) :
        \A a, b \in 1..Len(st) :
            (a # b /\ st[a].provider = st[b].provider) => st[a].taskId # st[b].taskId}

\* the status command on a store left by earlier runs; no run in progress
StatusInit ==
    /\ providerIds = <<>>
    /\ mode = "async"
    /\ maxParallel = 1
    /\ dCaps \in StatusCaps
    /\ dFallback = NoId
    /\ phase = "idle"
    /\ pc = <<>>
    /\ queue = <<>>
    /\ activeCount = 0
    /\ reports = <<>>
    /\ asyncTasks = <<>>
    /\ events = <<>>
    /\ fbOf = <<>>
    /\ calls = {}
    /\ hist = <<>>
    /\ owner = <<>>
    /\ exitCode = -1
    /\ store \in Stores
    /\ StatusIdle
    /\ LibIdle

StatusSpec == StatusInit /\ [][StatusNext]_vars

\* ---------------------------------------------------------------- round trip
\* run on one deep-research provider in mode async or mixed, followed by the
\* status command on the output directory of that run
RoundTripInit ==
    /\ Init
    /\ Len(providerIds) = 1
    /\ providerIds[1] \in {"d", "e"}
    /\ mode \in {"async", "mixed"}
    /\ ValidConcurrency(maxParallel)

RoundTripNext ==
    \/ DispatchCall
    \/ \E i \in Tasks, o \in SubmitOutcomes : SubmitReturn(i, o)
    \/ \E i \in Tasks, o \in ResultOutcomes, w \in BOOLEAN : RetrieveReturn(i, o, w)
    \/ \E i \in Tasks, o \in ResultOutcomes, w \in BOOLEAN : ExecuteReturn(i, o, w)
    \/ \E i \in Tasks, o \in ResultOutcomes, w \in BOOLEAN : FallbackReturn(i, o, w)
    \/ DispatchReturn
    \/ \E io \in RunIoOutcomes : RunFinish(io)
    \/ \E wait, retrieve \in BOOLEAN : (phase # "idle" /\ StatusStart(wait, retrieve))
    \/ \E r \in PollOutcomes, w \in BOOLEAN : PollReturn(r, w)
    \/ SleepReturn
    \/ \E o \in ResultOutcomes, n \in 0..3 : RetrieveTaskReturn(o, n)

RoundTripSpec == RoundTripInit /\ [][RoundTripNext]_vars

\* ================================================================ http client
\* One call of httpRequest. Each action is one synchronous segment between two
\* awaits: the sleep before a retry, fetch, and response.text(). The caller may
\* abort its signal at any moment; an aborted signal aborts the controller of
\* the attempt, so a fetch or a body read in flight rejects with an AbortError.
\* The timer of an attempt is cleared once fetch has resolved: a body read is
\* not timed out.
MAX_RETRIES == 3
INITIAL_RETRY_DELAY_MS == 1000
\* 10 * 1024 * 1024
MAX_RESPONSE_SIZE == 10485760

\* response statuses and text lengths explored, with the edges of each test
Statuses == {200, 399, 400, 429, 499, 500}
BodySizes == {0, MAX_RESPONSE_SIZE, MAX_RESPONSE_SIZE + 1}
\* what a rejected fetch or body read rejects with
Rejections == {"network", "AbortError"}

ErrAborted == "Request aborted"
ErrTimedOut == "Request timed out"
ErrNetwork == "fetch failed"
ErrTooLarge == "Response exceeds MAX_RESPONSE_SIZE bytes"
ErrHttp == "HTTP status"

\* INITIAL_RETRY_DELAY_MS * 2 ** (attempt - 1)
RetryDelay(n) == INITIAL_RETRY_DELAY_MS * 2^(n - 1)

\* (variant: the lower edge of the client errors is left out)
IsClientError_Above400(status) == status > 400 /\ status < 500 /\ status # 429

\* client errors (4xx) except 429: returned without a retry
IsClientError(status) == status >= 400 /\ status < 500 /\ status # 429

\* retried statuses: 5xx and 429
IsRetryStatus(status) == status >= 500 \/ status = 429

\* the state of the call as one record, for the operators below
Hs ==
    [hpc |-> hpc, attempt |-> attempt, lastError |-> lastError,
     response |-> response, fetchCount |-> fetchCount, delays |-> delays,
     attemptLog |-> attemptLog, result |-> result]

CommitH(h) ==
    /\ hpc' = h.hpc
    /\ attempt' = h.attempt
    /\ lastError' = h.lastError
    /\ response' = h.response
    /\ fetchCount' = h.fetchCount
    /\ delays' = h.delays
    /\ attemptLog' = h.attemptLog
    /\ result' = h.result

\* the call ends by throwing
ThrowH(h, message) ==
    [h EXCEPT !.hpc = "threw",
              !.result = [kind |-> "error", status |-> 0, size |-> 0,
                          error |-> message]]

\* the call ends by returning the response in hand with the text read
ReturnH(h, size) ==
    [h EXCEPT !.hpc = "returned",
              !.result = [kind |-> "response", status |-> h.response,
                          size |-> size, error |-> "none"]]

\* the attempt in progress ends without a return
EndAttempt(h, end) ==
    [h EXCEPT !.attemptLog = Append(@, [status |-> h.response, end |-> end])]

\* the head of an iteration after its sleep: the external signal is tested,
\* then fetch is called
BeginFetch(h) ==
    IF hasSignal /\ aborted
    THEN ThrowH(h, ErrAborted)
    ELSE [h EXCEPT !.hpc = "fetch", !.fetchCount = @ + 1, !.response = 0]

\* the loop goes round: attempt++ and the sleep that opens the iteration
NextAttempt(h) ==
    [h EXCEPT !.attempt = @ + 1,
              !.hpc = "sleep",
              !.delays = Append(@, RetryDelay(h.attempt + 1))]

\* (variant: an AbortError is always taken for the timeout of the attempt)
CatchMessage_NoSignalTest(e) ==
    CASE e = "AbortError" -> ErrTimedOut
      [] e = "size" -> ErrTooLarge
      [] OTHER -> ErrNetwork

\* the message an exception leaves the catch block with, thrown at once when
\* it is the abort message and kept in lastError otherwise
CatchMessage(e) ==
    CASE e = "AbortError" /\ hasSignal /\ aborted -> ErrAborted
      [] e = "AbortError" -> ErrTimedOut
      [] e = "size" -> ErrTooLarge
      [] OTHER -> ErrNetwork

\* how the attempt ended, for the log
EndOf(e) ==
    CASE e = "AbortError" /\ hasSignal /\ aborted -> "aborted"
      [] e = "AbortError" -> "timeout"
      [] OTHER -> e

\* the catch block around fetch and the reading of the body
Catch(h, e) ==
    LET message == CatchMessage(e)
        h1 == EndAttempt(h, EndOf(e))
    IN IF message = ErrAborted
       THEN ThrowH(h1, ErrAborted)
       ELSE LET h2 == [h1 EXCEPT !.lastError = message]
            IN IF h2.attempt >= MAX_RETRIES
               THEN ThrowH(h2, h2.lastError)
               ELSE NextAttempt(h2)

\* httpRequest is called: the first iteration has no sleep
HttpCall ==
    /\ hpc = "start"
    /\ CommitH(BeginFetch(Hs))
    /\ UNCHANGED <<hasSignal, aborted, confVars, plug, scriptOp, norm, disk, cfgVars, runVars, store, stVars>>

\* the caller aborts its signal
Abort ==
    /\ hpc \in {"start", "fetch", "sleep", "text", "text4xx"}
    /\ hasSignal /\ ~aborted
    /\ aborted' = TRUE
    /\ UNCHANGED <<hpc, hasSignal, attempt, lastError, response, fetchCount,
                   delays, attemptLog, result, confVars, plug, scriptOp, norm, disk, cfgVars, runVars, store,
                   stVars>>

\* fetch resolves with a response
FetchResolve(status) ==
    /\ hpc = "fetch"
    /\ ~(hasSignal /\ aborted)
    /\ LET h == [Hs EXCEPT !.response = status]
       IN CommitH(
            IF IsClientError(status)
            THEN [h EXCEPT !.hpc = "text4xx"]
            ELSE IF IsRetryStatus(status)
            THEN LET h1 == [h EXCEPT !.lastError = ErrHttp]
                 IN IF h1.attempt < MAX_RETRIES
                    THEN NextAttempt(EndAttempt(h1, "status"))
                    ELSE [h1 EXCEPT !.hpc = "text"]
            ELSE [h EXCEPT !.hpc = "text"])
    /\ UNCHANGED <<hasSignal, aborted, confVars, plug, scriptOp, norm, disk, cfgVars, runVars, store, stVars>>

\* fetch rejects: a network error, or the AbortError of the attempt's
\* controller, aborted by the timer or by the external signal
FetchReject(e) ==
    /\ hpc = "fetch"
    /\ (hasSignal /\ aborted) => e = "AbortError"
    /\ CommitH(Catch(Hs, e))
    /\ UNCHANGED <<hasSignal, aborted, confVars, plug, scriptOp, norm, disk, cfgVars, runVars, store, stVars>>

\* the sleep before a retry is over
BackoffReturn ==
    /\ hpc = "sleep"
    /\ CommitH(BeginFetch(Hs))
    /\ UNCHANGED <<hasSignal, aborted, confVars, plug, scriptOp, norm, disk, cfgVars, runVars, store, stVars>>

\* response.text() resolves with a text of the given length
TextResolve(size) ==
    /\ hpc \in {"text", "text4xx"}
    /\ ~(hasSignal /\ aborted)
    /\ CommitH(
         IF hpc = "text4xx"
         THEN ReturnH(Hs, size)
         ELSE IF size > MAX_RESPONSE_SIZE
         THEN Catch(Hs, "size")
         ELSE ReturnH(Hs, size))
    /\ UNCHANGED <<hasSignal, aborted, confVars, plug, scriptOp, norm, disk, cfgVars, runVars, store, stVars>>

\* response.text() rejects: the connection failed, or the external signal
\* aborted the controller
TextReject(e) ==
    /\ hpc \in {"text", "text4xx"}
    /\ (e = "AbortError") <=> (hasSignal /\ aborted)
    /\ CommitH(Catch(Hs, e))
    /\ UNCHANGED <<hasSignal, aborted, confVars, plug, scriptOp, norm, disk, cfgVars, runVars, store, stVars>>

HttpNext ==
    \/ HttpCall
    \/ Abort
    \/ \E status \in Statuses : FetchResolve(status)
    \/ \E e \in Rejections : FetchReject(e)
    \/ BackoffReturn
    \/ \E size \in BodySizes : TextResolve(size)
    \/ \E e \in Rejections : TextReject(e)

\* no run and no status command
NoRun ==
    /\ providerIds = <<>>
    /\ mode = "sync"
    /\ maxParallel = 1
    /\ dCaps = [submit |-> TRUE, retrieve |-> TRUE, poll |-> TRUE]
    /\ dFallback = NoId
    /\ phase = "idle"
    /\ pc = <<>>
    /\ queue = <<>>
    /\ activeCount = 0
    /\ reports = <<>>
    /\ asyncTasks = <<>>
    /\ events = <<>>
    /\ fbOf = <<>>
    /\ calls = {}
    /\ hist = <<>>
    /\ owner = <<>>
    /\ exitCode = -1
    /\ store = <<>>
    /\ StatusIdle

HttpInit ==
    /\ NoRun
    /\ hpc = "start"
    /\ hasSignal \in BOOLEAN
    /\ aborted = FALSE
    /\ attempt = 0
    /\ lastError = "none"
    /\ response = 0
    /\ fetchCount = 0
    /\ delays = <<>>
    /\ attemptLog = <<>>
    /\ result = NoResult
    /\ ConfigIdle
    /\ PlugIdle /\ ScriptIdle /\ NormIdle /\ DiskIdle

HttpSpec == HttpInit /\ [][HttpNext]_vars

\* ================================================================ config
\* The configuration pipeline of run: loadConfig on the parsed global file
\* (default groups merged in, legacy ids migrated), then mergeConfigs with the
\* project file and the CLI flags. config.providers is an object: its entries
\* are kept in insertion order, as a sequence of [id, value, fallback], where
\* value stands for the rest of the entry (apiKey, enabled, ...).
MaxProviders == 2
MaxMembers == 3

\* provider keys of the file: the legacy id "l" and its canonical id "e", and
\* the legacy id "k" whose canonical id "d" is not in the file
CfgIds == {"l", "e", "k"}
GroupNames == {"deep", "mine"}
DEFAULT_GROUPS == [deep |-> <<"d", "e">>]
DefaultKeys == {"outputDir", "maxParallel", "mode"}
Undefined == "undefined"

\* {...base, ...over}
Spread(base, over) ==
    [k \in DOMAIN base \cup DOMAIN over |->
        IF k \in DOMAIN over THEN over[k] ELSE base[k]]

\* resolveProviderIds(ids): canonical ids, each once, in first-seen order
RECURSIVE resolveProviderIds(_)
resolveProviderIds(ids) ==
    IF ids = <<>> THEN <<>>
    ELSE LET front == resolveProviderIds(SubSeq(ids, 1, Len(ids) - 1))
             canonical == resolveProviderId(ids[Len(ids)])
         IN IF Contains(front, canonical) THEN front ELSE Append(front, canonical)

\* the position of the key in the entries, 0 when it is not a key
KeyIndex(entries, id) ==
    IF \E k \in 1..Len(entries) : entries[k].id = id
    THEN CHOOSE k \in 1..Len(entries) : entries[k].id = id
    ELSE 0

\* migratedProviders[canonicalId] = normalizedConfig
SetEntry(entries, entry) ==
    IF KeyIndex(entries, entry.id) = 0
    THEN Append(entries, entry)
    ELSE [entries EXCEPT ![KeyIndex(entries, entry.id)] = entry]

Warning(kind, id, to) == [kind |-> kind, id |-> id, to |-> to]

\* the warnings of one turn of the loop that are pushed before the entry is kept
\* or dropped
DeprecationWarnings(entry) ==
    LET canonicalId == resolveProviderId(entry.id)
        normalizedFallback ==
            IF entry.fallback # NoId THEN resolveProviderId(entry.fallback) ELSE NoId
    IN (IF canonicalId # entry.id
        THEN <<Warning("deprecated-id", entry.id, canonicalId)>>
        ELSE <<>>)
       \o (IF entry.fallback # NoId /\ normalizedFallback # entry.fallback
           THEN <<Warning("deprecated-fallback", canonicalId, normalizedFallback)>>
           ELSE <<>>)

\* (variant: the entry migrated first is kept, the canonical key has no priority)
MigrateEntry_FirstWins(acc, entry) ==
    LET canonicalId == resolveProviderId(entry.id)
        normalizedConfig ==
            [id |-> canonicalId, value |-> entry.value,
             fallback |-> IF entry.fallback # NoId
                          THEN resolveProviderId(entry.fallback) ELSE NoId]
        warned == acc.warnings \o DeprecationWarnings(entry)
    IN IF KeyIndex(acc.providers, canonicalId) = 0
       THEN [providers |-> SetEntry(acc.providers, normalizedConfig),
             warnings |-> warned]
       ELSE [providers |-> acc.providers,
             warnings |-> Append(warned, Warning("both-configured", entry.id, canonicalId))]

\* one turn of the loop over Object.entries(config.providers)
MigrateEntry(acc, entry) ==
    LET canonicalId == resolveProviderId(entry.id)
        normalizedConfig ==
            [id |-> canonicalId, value |-> entry.value,
             fallback |-> IF entry.fallback # NoId
                          THEN resolveProviderId(entry.fallback) ELSE NoId]
        warned == acc.warnings \o DeprecationWarnings(entry)
    IN IF KeyIndex(acc.providers, canonicalId) = 0 \/ entry.id = canonicalId
       THEN [providers |-> SetEntry(acc.providers, normalizedConfig),
             warnings |-> warned]
       ELSE [providers |-> acc.providers,
             warnings |-> Append(warned, Warning("both-configured", entry.id, canonicalId))]

\* the loop over the first n entries
RECURSIVE MigrateFrom(_, _)
MigrateFrom(entries, n) ==
    IF n = 0 THEN [providers |-> <<>>, warnings |-> <<>>]
    ELSE MigrateEntry(MigrateFrom(entries, n - 1), entries[n])

\* the warnings for the deprecated members of one group
RECURSIVE MemberWarnings(_, _)
MemberWarnings(name, members) ==
    IF members = <<>> THEN <<>>
    ELSE (IF resolveProviderId(Head(members)) # Head(members)
          THEN <<Warning("deprecated-member", name, Head(members))>>
          ELSE <<>>)
         \o MemberWarnings(name, Tail(members))

\* migrateLegacyProviderIds(config): the config after the call, and the
\* warnings returned
migrateLegacyProviderIds(config) ==
    LET done == MigrateFrom(config.providers, Len(config.providers))
        groupWarnings(name) ==
            IF name \in DOMAIN config.groups
            THEN MemberWarnings(name, config.groups[name])
            ELSE <<>>
    IN [config |-> [config EXCEPT
                       !.providers = done.providers,
                       !.groups = [name \in DOMAIN config.groups |->
                                      resolveProviderIds(config.groups[name])]],
        warnings |-> done.warnings \o groupWarnings("deep") \o groupWarnings("mine")]

\* loadConfig on a file that exists and parses
loadConfig(parsed) ==
    migrateLegacyProviderIds(
        [parsed EXCEPT !.groups = Spread(DEFAULT_GROUPS, parsed.groups)])

\* (variant: every falsy value is dropped)
stripUndefined_Falsy(obj) ==
    [k \in {j \in DOMAIN obj : obj[j] # Undefined /\ obj[j] # ""} |-> obj[k]]

\* stripUndefined(obj)
stripUndefined(obj) ==
    [k \in {j \in DOMAIN obj : obj[j] # Undefined} |-> obj[k]]

\* mergeConfigs(global, project, cliFlags): the Config returned, and the
\* arguments as the call leaves them
mergeConfigs(global, proj, cli) ==
    LET fromProject ==
            IF proj.kind = "object" /\ proj.hasDefaults
            THEN Spread(global.defaults, stripUndefined(proj.defaults))
            ELSE global.defaults
        fromCli ==
            IF cli.kind = "object"
            THEN Spread(fromProject, stripUndefined(cli.flags))
            ELSE fromProject
    IN [merged |-> [defaults |-> fromCli,
                    providers |-> global.providers,
                    groups |-> global.groups],
        global |-> global, project |-> proj, cliFlags |-> cli]

\* run loads the global config
LoadCall ==
    /\ cpc = "start"
    /\ LET r == loadConfig(file)
       IN /\ loaded' = r.config
          /\ warnings' = r.warnings
    /\ cpc' = "loaded"
    /\ UNCHANGED <<file, project, cliFlags, merged, httpVars, plug, scriptOp, norm, disk, cfgVars, runVars,
                   store, stVars>>

\* run merges the layers
MergeCall ==
    /\ cpc = "loaded"
    /\ LET r == mergeConfigs(loaded, project, cliFlags)
       IN /\ merged' = r.merged
          /\ loaded' = r.global
          /\ project' = r.project
          /\ cliFlags' = r.cliFlags
    /\ cpc' = "merged"
    /\ UNCHANGED <<file, warnings, httpVars, plug, scriptOp, norm, disk, cfgVars, runVars, store, stVars>>

ConfigNext == LoadCall \/ MergeCall

\* the entries a file can hold under a key
Entries ==
    {[id |-> id, value |-> id, fallback |-> f] : id \in CfgIds, f \in CfgIds \cup {NoId}}

GlobalDefaults == [k \in DefaultKeys |-> "G"]

\* the parsed files explored: up to MaxProviders entries under distinct keys,
\* and one group, the user's own or a replacement of the default group
Files ==
    {[defaults |-> GlobalDefaults, providers |-> p, groups |-> g] :
        p \in {q \in SeqsUpTo(Entries, MaxProviders) :
                  \A a, b \in 1..Len(q) : q[a].id = q[b].id => a = b},
        g \in UNION {[{name} -> SeqsUpTo(CfgIds, MaxMembers)] : name \in GroupNames}}

\* the files against which every combination of the layers is explored
LayeredFiles ==
    {f \in Files : /\ Len(f.providers) = MaxProviders
                   /\ f.providers[1].id = "l" /\ f.providers[2].id = "e"
                   /\ \A k \in 1..Len(f.providers) : f.providers[k].fallback = NoId
                   /\ f.groups = [mine |-> <<"l">>]}

NullProject == [kind |-> "null"]
NoFlags == [kind |-> "undefined"]

Projects ==
    {NullProject, [kind |-> "object", hasDefaults |-> FALSE]}
    \cup {[kind |-> "object", hasDefaults |-> TRUE, defaults |-> d] :
             d \in [DefaultKeys -> {Undefined, "P", ""}]}

Flags ==
    {NoFlags}
    \cup {[kind |-> "object", flags |-> d] : d \in [DefaultKeys -> {Undefined, "C", ""}]}

ConfigInit ==
    /\ NoRun
    /\ HttpIdle
    /\ PlugIdle /\ ScriptIdle /\ NormIdle /\ DiskIdle
    /\ cpc = "start"
    /\ loaded = NoConfig
    /\ warnings = <<>>
    /\ merged = NoConfig
    /\ \/ file \in Files /\ project = NullProject /\ cliFlags = NoFlags
       \/ file \in LayeredFiles /\ project \in Projects /\ cliFlags \in Flags

ConfigSpec == ConfigInit /\ [][ConfigNext]_vars

\* ================================================================ custom providers
\* initializeProviders and loadCustomProviders: the built-in providers are
\* registered, then every entry of config.customProviders is skipped or loaded.

\* most entries of config.customProviders explored
MaxCustom == 2

\* the built-in providers initializeProviders instantiates
builtIns == {"d", "e"}

\* keys of config.customProviders: "e" is also the id of a built-in provider
CustomIds == {"m", "s", "e"}

SourceTypes == {"npm", "script"}

InstallMethods == {"npm", "homebrew", "sea-standalone"}

\* registerProvider(provider): Map.set under provider.id
registerProvider(registry, provider) ==
    {r \in registry : r.id # provider.id} \cup {provider}

\* the keys of a Map's entries
RegisteredIds(registry) == {r.id : r \in registry}

\* the registry after the loop over builtIns
RegisterBuiltIns == {[id |-> id, source |-> "builtin"] : id \in builtIns}

reservedProviderIds == builtIns

\* what the describe operation of a script can settle with
Describes(id) ==
    {[settled |-> "ok", id |-> i, execute |-> x] :
        i \in {Undefined, "", id, "zz"}, x \in {Undefined, "true", "false"}}
    \cup {[settled |-> s, id |-> Undefined, execute |-> Undefined] :
        s \in {"timed out", "invalid JSON", "invalid payload", "not ok"}}

\* what resolving and importing an npm module can give
Candidates(id) ==
    {[resolved |-> TRUE, object |-> TRUE, id |-> i, valid |-> v] :
        i \in {Undefined, id, "zz"}, v \in BOOLEAN}
    \cup {[resolved |-> TRUE, object |-> FALSE, id |-> Undefined, valid |-> FALSE],
          [resolved |-> FALSE, object |-> FALSE, id |-> Undefined, valid |-> FALSE]}

Loaded(id, source) == [ok |-> TRUE, provider |-> [id |-> id, source |-> source]]

Thrown(message) == [ok |-> FALSE, provider |-> [id |-> NoId, source |-> message]]

\* loadScriptProvider, given what describe settled with
loadScriptProvider(providerId, describe) ==
    IF describe.settled # "ok" THEN Thrown(describe.settled)
    ELSE IF describe.id \notin {Undefined, ""} /\ describe.id # providerId
         THEN Thrown("id does not match")
    ELSE IF describe.execute = "false" THEN Thrown("execute must be true")
    ELSE Loaded(providerId, "script")

\* loadNpmProvider with normalizeAndValidateProvider, given the module's export
loadNpmProvider(providerId, candidate) ==
    IF ~candidate.resolved THEN Thrown("Cannot resolve npm module")
    ELSE IF ~candidate.object THEN Thrown("did not return a provider object")
    ELSE IF candidate.id # providerId THEN Thrown("Provider id mismatch")
    ELSE IF ~candidate.valid THEN Thrown("Provider must define")
    ELSE Loaded(candidate.id, "npm")

npmLoadingBlocked(installMethod) == installMethod \in {"homebrew", "sea-standalone"}

\* the entry is skipped: a warning and the id in skippedIds
Skip(p, kind) ==
    [p EXCEPT !.warnings = Append(@, [kind |-> kind, id |-> p.custom[p.i].id]),
              !.skippedIds = Append(@, p.custom[p.i].id),
              !.i = @ + 1]

\* variant: the collision with a built-in id is not tested
SkipReason_NoReserved(p) ==
    LET e == p.custom[p.i] IN
    IF e.id \notin p.trusted THEN "untrusted"
    ELSE IF e.type = "npm" /\ npmLoadingBlocked(p.installMethod) THEN "npm-blocked"
    ELSE "none"

\* the tests of the loop body that skip the entry without loading it
SkipReason(p) ==
    LET e == p.custom[p.i] IN
    IF e.id \in reservedProviderIds THEN "conflict"
    ELSE IF e.id \notin p.trusted THEN "untrusted"
    ELSE IF e.type = "npm" /\ npmLoadingBlocked(p.installMethod) THEN "npm-blocked"
    ELSE "none"

\* initializeProviders registers customResult.providers in order
RECURSIVE RegisterAll(_, _)
RegisterAll(registry, providers) ==
    IF providers = <<>> THEN registry
    ELSE RegisterAll(registerProvider(registry, Head(providers)), Tail(providers))

\* the loop of loadCustomProviders up to its next await, and past its end the
\* rest of initializeProviders
RECURSIVE Loop(_)
Loop(p) ==
    IF p.i > Len(p.custom)
    THEN [p EXCEPT !.pc = "done", !.registry = RegisterAll(@, p.providers)]
    ELSE IF SkipReason(p) # "none" THEN Loop(Skip(p, SkipReason(p)))
    ELSE [p EXCEPT !.pc = "load"]

\* variant: the error of a failed load leaves loadCustomProviders
Caught_Rethrow(p, message) == [p EXCEPT !.pc = "rejected"]

\* the catch clause of the loop body
Caught(p, message) == Loop(Skip([p EXCEPT !.failed = @ \cup {p.custom[p.i].id}], "failed"))

\* initializeProviders is called
InitializeCall ==
    /\ plug.pc = "start"
    /\ plug' = Loop([plug EXCEPT !.registry = RegisterBuiltIns])
    /\ UNCHANGED <<httpVars, confVars, scriptOp, norm, disk, cfgVars, runVars, store, stVars>>

\* the load of the current entry settles
LoadSettle(outcome) ==
    /\ plug.pc = "load"
    /\ plug' = IF outcome.ok
               THEN Loop([plug EXCEPT !.providers = Append(@, outcome.provider),
                                      !.loadedIds = Append(@, plug.custom[plug.i].id),
                                      !.i = @ + 1])
               ELSE Caught(plug, outcome.provider.source)
    /\ UNCHANGED <<httpVars, confVars, scriptOp, norm, disk, cfgVars, runVars, store, stVars>>

ScriptLoad ==
    /\ plug.pc = "load" /\ plug.custom[plug.i].type = "script"
    /\ \E describe \in Describes(plug.custom[plug.i].id) :
          LoadSettle(loadScriptProvider(plug.custom[plug.i].id, describe))

NpmLoad ==
    /\ plug.pc = "load" /\ plug.custom[plug.i].type = "npm"
    /\ \E candidate \in Candidates(plug.custom[plug.i].id) :
          LoadSettle(loadNpmProvider(plug.custom[plug.i].id, candidate))

PlugNext ==
    \/ InitializeCall
    \/ ScriptLoad
    \/ NpmLoad

\* Object.entries(config.customProviders): distinct keys in insertion order
CustomEntries ==
    {c \in SeqsUpTo([id : CustomIds, type : SourceTypes], MaxCustom) :
        \A j, k \in 1..Len(c) : j # k => c[j].id # c[k].id}

PlugInit ==
    /\ NoRun
    /\ HttpIdle /\ ConfigIdle /\ ScriptIdle /\ NormIdle /\ DiskIdle
    /\ \E c \in CustomEntries, t \in SUBSET CustomIds, m \in InstallMethods :
          plug = [pc |-> "start", custom |-> c, trusted |-> t, installMethod |-> m,
                  i |-> 1, registry |-> {}, providers |-> <<>>, loadedIds |-> <<>>,
                  skippedIds |-> <<>>, warnings |-> <<>>, failed |-> {}]

PlugSpec == PlugInit /\ [][PlugNext]_vars

\* ================================================================ script operation
\* runScriptOperation: one child process, one timer, one promise.  Time is
\* counted in ticks since the spawn.

\* ticks of the clock per second
TicksPerSecond == 2

\* largest options.timeout explored, in ticks
MaxTimeoutTicks == 5

DEFAULT_SCRIPT_OPERATION_TIMEOUT_SECONDS == 30
DEFAULT_SCRIPT_RETRIEVE_TIMEOUT_SECONDS == 120

ScriptOperations == {"describe", "execute", "submit", "poll", "retrieve", "test"}

\* options.timeout in ticks (a number of the config file: negative, zero or a
\* fraction of a second too), or no options at all
OptionTimeouts ==
    {[given |-> FALSE, ticks |-> 0]}
    \cup {[given |-> TRUE, ticks |-> t] : t \in (0 - 1)..MaxTimeoutTicks}

Max(a, b) == IF a >= b THEN a ELSE b

\* options.timeout itself, at least 1 s, in ticks
OptionsTimeoutTicks(operation, options) ==
    IF operation \in {"execute", "submit"}
    THEN Max(TicksPerSecond, IF options.given THEN options.ticks ELSE TicksPerSecond)
    ELSE IF operation = "retrieve"
    THEN DEFAULT_SCRIPT_RETRIEVE_TIMEOUT_SECONDS * TicksPerSecond
    ELSE DEFAULT_SCRIPT_OPERATION_TIMEOUT_SECONDS * TicksPerSecond

\* getOperationTimeoutSeconds(operation, options)
getOperationTimeoutSeconds(operation, options) ==
    IF operation \in {"execute", "submit"}
    THEN Max(1, IF options.given THEN options.ticks \div TicksPerSecond ELSE 1)
    ELSE IF operation = "retrieve" THEN DEFAULT_SCRIPT_RETRIEVE_TIMEOUT_SECONDS
    ELSE DEFAULT_SCRIPT_OPERATION_TIMEOUT_SECONDS

\* the delay of the timer, Math.max(1, timeoutSeconds) * 1000 ms, in ticks
getOperationTimeoutTicks(operation, options) ==
    Max(1, getOperationTimeoutSeconds(operation, options)) * TicksPerSecond

\* stdout += chunk, kept as what JSON.parse will make of stdout.trim()
AppendChunk(stdout, chunk) ==
    IF chunk = "blank" THEN stdout
    ELSE IF stdout = "" THEN chunk
    ELSE "garbage"

Chunks == {"blank", "json", "garbage"}

\* variant: finish settles the promise again when it is settled already
finish_NoGuard(s, kind, value) ==
    [s EXCEPT !.settled = TRUE,
              !.timer = IF @ = "armed" THEN "cleared" ELSE @,
              !.outcome = [kind |-> kind, value |-> value],
              !.settlements = @ + 1]

\* finish(error, value)
finish(s, kind, value) ==
    IF s.settled THEN s
    ELSE [s EXCEPT !.settled = TRUE,
                   !.timer = IF @ = "armed" THEN "cleared" ELSE @,
                   !.outcome = [kind |-> kind, value |-> value],
                   !.settlements = @ + 1]

ScriptStep(s) ==
    /\ scriptOp' = s
    /\ UNCHANGED <<httpVars, confVars, plug, norm, disk, cfgVars, runVars, store, stVars>>

\* the promise executor: spawn, the listeners, the timer, the envelope written
ScriptCall ==
    /\ scriptOp.pc = "start"
    /\ ScriptStep([scriptOp EXCEPT
           !.pc = "running",
           !.child = "running",
           !.timer = "armed",
           !.delay = getOperationTimeoutTicks(scriptOp.operation, scriptOp.options)])

\* time passes until the promise is settled; a timer that is due fires before
\* more time passes
Tick ==
    /\ scriptOp.pc = "running" /\ ~scriptOp.settled
    /\ scriptOp.clock <= scriptOp.delay
    /\ ~(scriptOp.timer = "armed" /\ scriptOp.clock >= scriptOp.delay)
    /\ ScriptStep([scriptOp EXCEPT !.clock = @ + 1])

\* child.stdout 'data'
StdoutData(chunk) ==
    /\ scriptOp.pc = "running"
    /\ scriptOp.child \in {"running", "killed"}
    /\ ScriptStep([scriptOp EXCEPT !.stdout = AppendChunk(@, chunk)])

\* child 'error': the command could not be started
ChildError ==
    /\ scriptOp.pc = "running"
    /\ scriptOp.child = "running" /\ scriptOp.stdout = ""
    /\ ScriptStep([finish(scriptOp, "rejected", "Failed to start")
                      EXCEPT !.child = "errored", !.closedAt = scriptOp.clock])

\* child 'close'
ChildClose ==
    /\ scriptOp.pc = "running"
    /\ scriptOp.child \in {"running", "killed", "errored"}
    /\ LET s == [scriptOp EXCEPT !.child = "closed",
                                 !.closedAt = IF scriptOp.child = "errored" THEN @
                                              ELSE scriptOp.clock]
       IN  ScriptStep(CASE scriptOp.stdout = "" -> finish(s, "rejected", "no JSON response")
                        [] scriptOp.stdout = "json" -> finish(s, "resolved", "parsed")
                        [] OTHER -> finish(s, "rejected", "invalid JSON"))

\* the timer's callback
TimerFire ==
    /\ scriptOp.pc = "running"
    /\ scriptOp.timer = "armed" /\ scriptOp.clock >= scriptOp.delay
    /\ ScriptStep(finish([scriptOp EXCEPT
                             !.timer = "fired",
                             !.firedAt = scriptOp.clock,
                             !.child = IF @ = "running" THEN "killed" ELSE @],
                         "rejected", "timed out"))

ScriptNext ==
    \/ ScriptCall
    \/ Tick
    \/ \E chunk \in Chunks : StdoutData(chunk)
    \/ ChildError
    \/ ChildClose
    \/ TimerFire

NoOutcome == [kind |-> "none", value |-> "none"]

ScriptInit ==
    /\ NoRun
    /\ HttpIdle /\ ConfigIdle /\ PlugIdle /\ NormIdle /\ DiskIdle
    /\ \E operation \in ScriptOperations, options \in OptionTimeouts :
          scriptOp = [pc |-> "start", operation |-> operation, options |-> options,
                      delay |-> 0, clock |-> 0, timer |-> "none", child |-> "none",
                      stdout |-> "", settled |-> FALSE, outcome |-> NoOutcome,
                      settlements |-> 0, firedAt |-> 0 - 1, closedAt |-> 0 - 1]

ScriptSpec == ScriptInit /\ [][ScriptNext]_vars

\* ================================================================ normalizer
\* normalizeUrl and deduplicateSources.  A string is a sequence of tokens: a
\* host, "/", a path segment, "?", "&", a parameter, a fragment.

\* most citations in the list handed to deduplicateSources
MaxCitations == 3

\* most query parameters of a url
MaxParams == 2

Hosts == {"a.com", "A.COM", "b.org"}

Segments == {"x"}

QueryParams == {"k=1", "utm_source=t", "ref=r"}

Fragments == {"", "#f"}

\* String.prototype.toLowerCase, token by token
toLowerCase(token) ==
    CASE token = "A.COM" -> "a.com"
      [] token = "X" -> "x"
      [] OTHER -> token

\* the name of a query parameter
ParamName(param) ==
    CASE param = "k=1" -> "k"
      [] param = "utm_source=t" -> "utm_source"
      [] param = "ref=r" -> "ref"
      [] OTHER -> param

trackingParams ==
    {"utm_source", "utm_medium", "utm_campaign", "utm_term", "utm_content", "ref",
     "fbclid", "gclid", "msclkid", "mc_cid", "mc_eid"}

\* a url new URL() parses
ParsedUrl(scheme, www, host, path, slash, params, hash) ==
    [parsable |-> TRUE, scheme |-> scheme, www |-> www, host |-> host, path |-> path,
     slash |-> slash, params |-> params, hash |-> hash, raw |-> <<>>]

\* a string new URL() throws on
RawUrl(raw) ==
    [parsable |-> FALSE, scheme |-> "", www |-> FALSE, host |-> "", path |-> <<>>,
     slash |-> FALSE, params |-> <<>>, hash |-> "", raw |-> raw]

EmptyUrl == RawUrl(<<>>)

RECURSIVE Join(_, _)
Join(tokens, separator) ==
    IF Len(tokens) <= 1 THEN tokens
    ELSE <<Head(tokens), separator>> \o Join(Tail(tokens), separator)

\* URL.pathname: "/" for the empty path
Pathname(u) ==
    IF u.path = <<>> THEN <<"/">>
    ELSE <<"/">> \o Join(u.path, "/") \o (IF u.slash THEN <<"/">> ELSE <<>>)

\* searchParams after the deletions, in the order met
RECURSIVE DeleteTracking(_)
DeleteTracking(params) ==
    IF params = <<>> THEN <<>>
    ELSE IF ParamName(Head(params)) \in trackingParams THEN DeleteTracking(Tail(params))
    ELSE <<Head(params)>> \o DeleteTracking(Tail(params))

\* replace(/\/+$/, '')
RECURSIVE StripTrailingSlashes(_)
StripTrailingSlashes(tokens) ==
    IF tokens # <<>> /\ tokens[Len(tokens)] = "/"
    THEN StripTrailingSlashes(SubSeq(tokens, 1, Len(tokens) - 1))
    ELSE tokens

\* parsed.hostname after the lowercasing and the removal of the leading www.
Hostname(u) == <<toLowerCase(u.host)>>

normalizeUrl(u) ==
    IF u.parsable
    THEN LET query == DeleteTracking(u.params)
         IN  StripTrailingSlashes(
                 Hostname(u) \o Pathname(u)
                 \o (IF query # <<>> THEN <<"?">> \o Join(query, "&") ELSE <<>>)
                 \o (IF u.hash # "" THEN <<u.hash>> ELSE <<>>))
    ELSE StripTrailingSlashes([k \in 1..Len(u.raw) |-> toLowerCase(u.raw[k])])

\* the position of the entry of the Map with the key, 0 for none
MapGet(map, key) ==
    IF \E k \in 1..Len(map) : map[k].normalizedUrl = key
    THEN CHOOSE k \in 1..Len(map) : map[k].normalizedUrl = key
    ELSE 0

Includes(s, x) == \E k \in 1..Len(s) : s[k] = x

\* !title
NoTitle(title) == title \in {Undefined, ""}

\* the branch of the loop body for a key the Map holds
UpdateExisting(existing, citation) ==
    [existing EXCEPT
        !.citationCount = @ + 1,
        !.providers = IF Includes(@, citation.provider) THEN @
                      ELSE Append(@, citation.provider),
        !.title = IF NoTitle(@) /\ ~NoTitle(citation.title) THEN citation.title ELSE @]

\* the loop over the citations
RECURSIVE Bucket(_, _)
Bucket(map, citations) ==
    IF citations = <<>> THEN map
    ELSE LET citation == Head(citations)
             normalized == normalizeUrl(citation.url)
             at == MapGet(map, normalized)
         IN  IF citation.url = EmptyUrl THEN Bucket(map, Tail(citations))
             ELSE IF at # 0
             THEN Bucket([map EXCEPT ![at] = UpdateExisting(@, citation)],
                         Tail(citations))
             ELSE Bucket(Append(map, [url |-> citation.url,
                                      normalizedUrl |-> normalized,
                                      title |-> citation.title,
                                      providers |-> <<citation.provider>>,
                                      citationCount |-> 1]),
                         Tail(citations))

\* variant: an entry is placed before the entries of equal count
InsertByCount_BeforeEqual(sorted, e) ==
    LET before == {k \in 1..Len(sorted) : sorted[k].citationCount > e.citationCount}
    IN  SubSeq(sorted, 1, Cardinality(before)) \o <<e>>
        \o SubSeq(sorted, Cardinality(before) + 1, Len(sorted))

\* one step of the stable sort by (a, b) => b.citationCount - a.citationCount
InsertByCount(sorted, e) ==
    LET before == {k \in 1..Len(sorted) : sorted[k].citationCount >= e.citationCount}
    IN  SubSeq(sorted, 1, Cardinality(before)) \o <<e>>
        \o SubSeq(sorted, Cardinality(before) + 1, Len(sorted))

RECURSIVE SortByCount(_, _)
SortByCount(sorted, entries) ==
    IF entries = <<>> THEN sorted
    ELSE SortByCount(InsertByCount(sorted, Head(entries)), Tail(entries))

deduplicateSources(citations) == SortByCount(<<>>, Bucket(<<>>, citations))

NormStep(s) ==
    /\ norm' = s
    /\ UNCHANGED <<httpVars, confVars, plug, scriptOp, disk, cfgVars, runVars, store, stVars>>

\* normalizeUrl is applied to both urls of a pair
NormalizePair ==
    /\ norm.pc = "pair"
    /\ NormStep([norm EXCEPT !.pc = "keys",
                             !.keyU = normalizeUrl(norm.u),
                             !.keyV = normalizeUrl(norm.v)])

\* run hands the citations of all reports to deduplicateSources
Deduplicate ==
    /\ norm.pc = "list"
    /\ NormStep([norm EXCEPT !.pc = "sources",
                             !.sources = deduplicateSources(norm.citations)])

NormNext ==
    \/ NormalizePair
    \/ Deduplicate

\* the urls explored
Urls ==
    {ParsedUrl(scheme, www, host, path, slash, params, hash) :
        scheme \in {"http", "https"}, www \in BOOLEAN, host \in Hosts,
        path \in SeqsUpTo(Segments, 1), slash \in BOOLEAN,
        params \in {p \in SeqsUpTo(QueryParams, MaxParams) :
                       \A j, k \in 1..Len(p) : j # k => p[j] # p[k]},
        hash \in Fragments}

Differences == {"scheme", "www", "slash", "tracking"}

\* the url that differs from u in the given respects only
Vary(u, differences) ==
    [u EXCEPT
        !.scheme = IF "scheme" \in differences
                   THEN (IF @ = "http" THEN "https" ELSE "http") ELSE @,
        !.www = IF "www" \in differences THEN ~@ ELSE @,
        !.slash = IF "slash" \in differences /\ u.path # <<>> THEN ~@ ELSE @,
        !.params = IF "tracking" \in differences THEN DeleteTracking(@) ELSE @]

UrlA == ParsedUrl("https", FALSE, "A.COM", <<"x">>, FALSE, <<>>, "")
UrlWwwA == ParsedUrl("https", TRUE, "A.COM", <<"x">>, TRUE, <<>>, "")
UrlB == ParsedUrl("https", FALSE, "b.org", <<"x">>, FALSE, <<>>, "")

\* the urls of the citations explored
CitedUrls == {EmptyUrl, UrlA, UrlWwwA, UrlB}

Titles == {Undefined, "", "T"}

Citations == [url : CitedUrls, title : Titles, provider : {"p1", "p2"}]

Cite(url, provider) == [url |-> url, title |-> Undefined, provider |-> provider]

\* the citations of scenario S1
S1Citations ==
    <<Cite(UrlA, "p1"), Cite(UrlWwwA, "p2"), Cite(UrlA, "p3"), Cite(UrlB, "p1")>>

NormInit ==
    /\ NoRun
    /\ HttpIdle /\ ConfigIdle /\ PlugIdle /\ ScriptIdle /\ DiskIdle
    /\ \/ \E u \in Urls, differences \in SUBSET Differences :
             norm = [pc |-> "pair", u |-> u, v |-> Vary(u, differences),
                     keyU |-> <<>>, keyV |-> <<>>, citations |-> <<>>, sources |-> <<>>]
       \/ \E cs \in SeqsUpTo(Citations, MaxCitations) \cup {S1Citations} :
             norm = [pc |-> "list", u |-> EmptyUrl, v |-> EmptyUrl,
                     keyU |-> <<>>, keyV |-> <<>>, citations |-> cs, sources |-> <<>>]

NormSpec == NormInit /\ [][NormNext]_vars

\* ================================================================ safeWriteFile
\* safeWriteFile(path, content): the directory of the target is seen by other
\* processes between the system calls, so each call of node:fs is a step.

\* most calls of safeWriteFile on one target
MaxWrites == 2

Absent == "absent"
Partial == "partial"

Contents == {"c1", "c2"}

FsOutcomes == {"ok", "throws"}

\* what writeFileSync leaves of the file when it throws
WriteFailures == {Absent, Partial}

\* variant: the content is written to the target itself
writeFileSync_InPlace(d, outcome, left) ==
    IF outcome = "ok"
    THEN [d EXCEPT !.pc = "idle", !.target = d.content, !.last = "returned"]
    ELSE [d EXCEPT !.pc = "unlink", !.target = IF left = Partial THEN Partial ELSE @]

\* writeFileSync(tmp, content, ...)
writeFileSync(d, outcome, left) ==
    IF outcome = "ok"
    THEN [d EXCEPT !.pc = "rename", !.tmps = @ \cup {[n |-> d.n, holds |-> d.content]}]
    ELSE [d EXCEPT !.pc = "unlink",
                   !.tmps = IF left = Partial
                            THEN @ \cup {[n |-> d.n, holds |-> Partial]} ELSE @]

\* the temporary file of the call under way
Tmp(d) == {t \in d.tmps : t.n = d.n}

\* renameSync(tmp, path)
renameSync(d, outcome) ==
    IF outcome = "ok"
    THEN [d EXCEPT !.pc = "idle", !.target = d.content, !.tmps = @ \ Tmp(d),
                   !.last = "returned"]
    ELSE [d EXCEPT !.pc = "unlink"]

\* the catch clause: unlinkSync(tmp), its error ignored, then throw e
unlinkSync(d, outcome) ==
    [d EXCEPT !.pc = "idle", !.last = "thrown",
              !.tmps = IF outcome = "ok" THEN @ \ Tmp(d) ELSE @,
              !.kept = IF outcome = "ok" THEN @ ELSE @ \cup {t.n : t \in Tmp(d)}]

DiskStep(d) ==
    /\ disk' = d
    /\ UNCHANGED <<httpVars, confVars, plug, scriptOp, norm, cfgVars, runVars, store, stVars>>

\* safeWriteFile is called: the name of the temporary file is chosen
SafeWriteCall(content) ==
    /\ disk.pc = "idle" /\ disk.n < MaxWrites
    /\ DiskStep([disk EXCEPT !.pc = "write", !.n = @ + 1, !.content = content,
                             !.before = disk.target, !.last = "none"])

WriteFileSync(outcome, left) ==
    /\ disk.pc = "write"
    /\ DiskStep(writeFileSync(disk, outcome, left))

RenameSync(outcome) ==
    /\ disk.pc = "rename"
    /\ DiskStep(renameSync(disk, outcome))

UnlinkSync(outcome) ==
    /\ disk.pc = "unlink"
    /\ DiskStep(unlinkSync(disk, outcome))

DiskNext ==
    \/ \E content \in Contents : SafeWriteCall(content)
    \/ \E outcome \in FsOutcomes, left \in WriteFailures : WriteFileSync(outcome, left)
    \/ \E outcome \in FsOutcomes : RenameSync(outcome)
    \/ \E outcome \in FsOutcomes : UnlinkSync(outcome)

DiskInit ==
    /\ NoRun
    /\ HttpIdle /\ ConfigIdle /\ PlugIdle /\ ScriptIdle /\ NormIdle
    /\ \E target \in {Absent, "c0"} :
          disk = [pc |-> "idle", target |-> target, tmps |-> {}, n |-> 0,
                  content |-> "c1", before |-> target, last |-> "none", kept |-> {}]

DiskSpec == DiskInit /\ [][DiskNext]_vars

\* ================================================================ claims
InFlight == {"submit", "retrieve", "execute", "fallback"}

\* the positions of the reports task i pushed
ReportsOfTask(i) == {k \in 1..Len(reports) : owner[k] = i}

\* the positions of the base reports (no fallbackFor) with the given id
BaseReports(id) ==
    {k \in 1..Len(reports) : reports[k].id = id /\ reports[k].fallbackFor = NoId}

\* the eligibility of the fallback configured for id, from the configuration alone
EligibleByConfig(id) ==
    /\ fallbackOf(id) # NoId
    /\ fallbackOf(id) \in Registered
    /\ fallbackOf(id) \in Configured
    /\ keyResolves(fallbackOf(id))
    /\ \A k \in 1..Len(providerIds) : providerIds[k] # fallbackOf(id)

\* every fallback report comes after an error report its own task pushed for
\* the primary it names
FallbackAfterPrimary ==
    \A k \in 1..Len(reports) :
        reports[k].fallbackFor # NoId =>
            \E j \in 1..(k - 1) :
                /\ owner[j] = owner[k]
                /\ reports[j].id = reports[k].fallbackFor
                /\ reports[j].fallbackFor = NoId
                /\ reports[j].status = "error"

\* C1: when dispatch returns, every id of providerIds has exactly one base
\* report (a report with that id and no fallbackFor), and every report that is
\* not such a base report carries fallbackFor.
C1_ManifestCompleteness ==
    phase = "returned" =>
        /\ \A i \in Tasks : Cardinality(BaseReports(providerIds[i])) = 1
        /\ \A k \in 1..Len(reports) :
               reports[k].fallbackFor = NoId => Contains(providerIds, reports[k].id)

\* the two reports of scenario S4 for primary P (task 1) and its fallback
S4Reports ==
    LET P == providerIds[1]
        Q == fallbackOf(P)
    IN <<Report(P, tierOf(P), "error", ErrThrown, NoId),
         Report(Q, tierOf(Q), "success", NoErr, P)>>

OnlyErrorResultReport(i) ==
    /\ pc[i] = "done"
    /\ \E k \in 1..Len(reports) :
           /\ ReportsOfTask(i) = {k}
           /\ reports[k] = Report(providerIds[i], tierOf(providerIds[i]), "error",
                                  ErrResult, NoId)

\* task i never attempted its fallback
NoFallbackBy(i) ==
    /\ fbOf[i] = NoId
    /\ pc[i] # "fallback"
    /\ \A c \in calls : ~(c.task = i /\ c.role = "fallback")
    /\ \A k \in ReportsOfTask(i) : reports[k].fallbackFor = NoId

C4_FallbackOnErrorResult ==
    ( /\ phase = "returned"
      /\ Len(providerIds) = 1
      /\ hist[1].execute = "error"
      /\ hist[1].executeWrite = "ok"
      /\ EligibleByConfig(providerIds[1]) )
    => /\ Len(reports) = 2
       /\ reports[1] = Report(providerIds[1], tierOf(providerIds[1]), "error", ErrResult, NoId)
       /\ reports[2].id = fallbackOf(providerIds[1])
       /\ reports[2].fallbackFor = providerIds[1]
       /\ (hist[1].fallback = "ok" /\ hist[1].fallbackWrite = "ok")
              => reports[2].status = "success"

\* the ids of the primaries whose fallback report has status success
RecoveredPrimaries ==
    {reports[k].fallbackFor :
        k \in {j \in 1..Len(reports) :
                  reports[j].fallbackFor # NoId /\ reports[j].status = "success"}}

\* the positions of the effective reports
EffectiveReports == {k \in 1..Len(reports) : reports[k].id \notin RecoveredPrimaries}

EffectiveOk == {k \in EffectiveReports : reports[k].status \in OkStatuses}

\* C5: the exit code of run is 0 iff there is an effective report and every
\* effective report is success or async-pending, 2 iff no effective report is,
\* and 1 otherwise (effective: all reports but those of a primary whose
\* fallback succeeded).
C5_ExitCode ==
    phase = "exited" =>
        /\ exitCode \in {0, 1, 2}
        /\ exitCode = 0 <=> (EffectiveReports # {} /\ EffectiveOk = EffectiveReports)
        /\ exitCode = 2 <=> EffectiveOk = {}

\* the provider id whose execute or submit task i awaits
CallTarget(i) == IF pc[i] = "fallback" THEN fbOf[i] ELSE providerIds[i]

\* C6: at no point are two calls of execute or submit of the same provider id
\* in flight, as a primary or as a fallback.
C6_OneExecutionPerId ==
    \A i, j \in Tasks :
        ( /\ i # j
          /\ pc[i] \in {"submit", "execute", "fallback"}
          /\ pc[j] \in {"submit", "execute", "fallback"} )
        => CallTarget(i) # CallTarget(j)

\* the tasks that hold a slot of the pool
Running == {i \in Tasks : pc[i] \in InFlight}

\* C7: at most maxParallel tasks run at any moment; a task holds its slot from
\* its start until its last report is recorded, the fallback's execution
\* included, so at most maxParallel provider calls are in flight; a task waits
\* in the queue only while every slot is taken, and dispatch returns only when
\* every task has run.
C7_BoundedFanOut ==
    /\ Cardinality(Running) <= maxParallel
    /\ activeCount = Cardinality(Running)
    /\ \A i \in Tasks : pc[i] = "done" => Cardinality(ReportsOfTask(i)) \in {1, 2}
    /\ \A i \in Tasks : pc[i] \in {"queued"} \cup InFlight =>
           Cardinality(ReportsOfTask(i)) = IF pc[i] = "fallback" THEN 1 ELSE 0
    /\ phase = "dispatching" =>
           /\ \A i \in Tasks : pc[i] = "queued" <=> Contains(queue, i)
           /\ queue # <<>> => activeCount = maxParallel
    /\ phase = "returned" => (queue = <<>> /\ \A i \in Tasks : pc[i] = "done")

\* every slot is taken, one of them by a task that awaits its fallback, while
\* another task waits in the queue
C7_Witness ==
    /\ phase = "dispatching"
    /\ queue # <<>>
    /\ activeCount = maxParallel
    /\ \E i \in Tasks : pc[i] = "fallback"

\* C8: dispatch never rejects; it returns only when every task has settled and
\* every task's outcome is present as a report.
C8_NeverThrows ==
    /\ phase # "rejected"
    /\ phase = "returned" =>
           \A i \in Tasks : pc[i] = "done" /\ ReportsOfTask(i) # {}

\* task i got past the registry and the enabled check
Routed(i) ==
    /\ pc[i] # "queued"
    /\ providerIds[i] \in Registered
    /\ providerIds[i] \in Configured
    /\ enabledOf(providerIds[i])

SubmitCalled(i) == \E c \in calls : c.op = "submit" /\ c.task = i

ExecuteCalled(i) == \E c \in calls : c.op = "execute" /\ c.task = i /\ c.role = "primary"

\* C9: submit is called for a provider that reaches the routing step iff the
\* mode is not sync, its tier is deep-research and it defines submit. In mode
\* sync asyncTasks stays empty, no report is async-pending and every routed
\* provider is run through execute; a provider of another tier never has
\* submit called and never gets an async-pending report.
C9_AsyncRouting ==
    /\ \A i \in Tasks :
           Routed(i) =>
               ( SubmitCalled(i) <=>
                   ( /\ mode # "sync"
                     /\ tierOf(providerIds[i]) = "deep-research"
                     /\ hasSubmit(providerIds[i]) ) )
    /\ \A i \in Tasks : ~Routed(i) => ~SubmitCalled(i)
    /\ \A c \in calls : c.op = "submit" => (c.role = "primary" /\ c.id = providerIds[c.task])
    /\ mode = "sync" =>
           /\ asyncTasks = <<>>
           /\ \A k \in 1..Len(reports) : reports[k].status # "async-pending"
           /\ \A i \in Tasks : Routed(i) => ExecuteCalled(i)
    /\ \A k \in 1..Len(reports) :
           reports[k].status = "async-pending" =>
               (tierOf(reports[k].id) = "deep-research" /\ mode # "sync")
    /\ Len(asyncTasks) =
           Cardinality({k \in 1..Len(reports) : reports[k].status = "async-pending"})

\* in mode async or mixed a deep-research provider was submitted and left
\* pending, next to an ai-grounded provider that defines submit and was executed
C9_Witness ==
    /\ mode # "sync"
    /\ phase = "returned"
    /\ \E i, j \in Tasks :
           /\ tierOf(providerIds[i]) = "deep-research"
           /\ SubmitCalled(i)
           /\ hist[i].submit = "pending"
           /\ tierOf(providerIds[j]) = "ai-grounded"
           /\ hasSubmit(providerIds[j])
           /\ ExecuteCalled(j)
           /\ ~SubmitCalled(j)

FallbackCalled(i) == \E c \in calls : c.task = i /\ c.role = "fallback"

\* C10: after a primary throws, its fallback is executed iff the primary's
\* config names a fallback, the fallback is registered, has a config entry
\* whose API key resolves, and is not selected; its enabled flag plays no part.
\* Otherwise no fallback-started event is emitted, the fallback is not called
\* and the task records the primary's error report only.
C10_FallbackEligibility ==
    \A i \in Tasks :
        hist[i].execute = "throw" =>
            LET id == providerIds[i] IN
            /\ FallbackCalled(i) <=> EligibleByConfig(id)
            /\ EligibleByConfig(id) =>
                   /\ Call("execute", fallbackOf(id), i, "fallback") \in calls
                   /\ \E k \in 1..Len(events) :
                          events[k] = Event(fallbackOf(id), "fallback-started", id)
            /\ ~EligibleByConfig(id) =>
                   /\ \A k \in 1..Len(events) :
                          ~(events[k].event = "fallback-started" /\ events[k].report = id)
                   /\ pc[i] = "done"
                   /\ \E k \in 1..Len(reports) :
                          /\ ReportsOfTask(i) = {k}
                          /\ reports[k] = Report(id, tierOf(id), "error", ErrThrown, NoId)

\* two primaries threw: the fallback of one, a provider with enabled = false,
\* was executed, and the fallback of the other was not eligible
C10_Witness ==
    \E i, j \in Tasks :
        /\ hist[i].execute = "throw"
        /\ fbOf[i] # NoId
        /\ ~enabledOf(fbOf[i])
        /\ hist[i].fallback # "none"
        /\ hist[j].execute = "throw"
        /\ fallbackOf(providerIds[j]) # NoId
        /\ ~EligibleByConfig(providerIds[j])
        /\ pc[j] = "done"

\* the primary of task i failed by an exception
PrimaryThrew(i) == hist[i].execute = "throw" \/ hist[i].executeWrite = "fail"

\* C11: when a primary P throws and its fallback Q is itself selected, P's task
\* attempts no fallback and no report with fallbackFor P is added; execute of Q
\* is called only by Q's own task as a primary, no report of Q carries
\* fallbackFor, and Q (selected once) has exactly one top-level report when
\* dispatch returns, whatever the order in which the two tasks ran.
C11_FallbackSkipIfSelected ==
    \A i \in Tasks :
        (PrimaryThrew(i) /\ Contains(providerIds, fallbackOf(providerIds[i]))) =>
            LET P == providerIds[i]
                Q == fallbackOf(P)
            IN /\ NoFallbackBy(i)
               /\ \A k \in 1..Len(reports) : reports[k].fallbackFor # P
               /\ \A c \in calls :
                      c.id = Q => (c.role = "primary" /\ providerIds[c.task] = Q)
               /\ \A k \in 1..Len(reports) :
                      reports[k].id = Q => reports[k].fallbackFor = NoId
               /\ (phase = "returned" /\ Cardinality({j \in Tasks : providerIds[j] = Q}) = 1)
                      => Cardinality(BaseReports(Q)) = 1

\* S5 with both tasks running at once: P was started first and threw; its
\* fallback Q, ruled out only by being selected, was executed by its own task
\* and reported before P
C11_Witness ==
    /\ phase = "returned"
    /\ Len(providerIds) = 2
    /\ providerIds[2] = fallbackOf(providerIds[1])
    /\ providerIds[2] # providerIds[1]
    /\ hist[1].execute = "throw"
    /\ keyResolves(providerIds[2])
    /\ hist[2].execute = "ok"
    /\ owner = <<2, 1>>

\* the fallback calls task i issued
FallbackCallsOf(i) == {c \in calls : c.task = i /\ c.role = "fallback"}

\* the fallback of task i failed: it threw, its artifacts could not be written,
\* or it returned an error result
FallbackFailed(i) ==
    hist[i].fallback \in {"throw", "error"} \/ hist[i].fallbackWrite = "fail"

\* the number of steps a task can still take
RankOf(p) ==
    CASE p = "queued"   -> 5
      [] p = "submit"   -> 4
      [] p = "retrieve" -> 3
      [] p = "execute"  -> 2
      [] p = "fallback" -> 1
      [] OTHER          -> 0

RECURSIVE SumRank(_)
SumRank(k) == IF k = 0 THEN 0 ELSE RankOf(pc[k]) + SumRank(k - 1)

\* an upper bound of the steps left before run ends
StepsLeft ==
    CASE phase = "idle"        -> 3 + 5 * Len(providerIds)
      [] phase = "dispatching" -> 2 + SumRank(Len(providerIds))
      [] phase \in {"returned", "rejected"} -> 1
      [] OTHER                 -> 0

\* C12 (state part): a task calls at most one fallback, the one configured on
\* its primary; when that fallback fails the task is over with two reports and
\* nothing more is called; each primary has at most one fallback report and a
\* dispatch over n ids holds at most 2n reports.
C12_OneLevel ==
    /\ \A i \in Tasks :
           /\ FallbackCallsOf(i) \subseteq
                  {Call("execute", fallbackOf(providerIds[i]), i, "fallback")}
           /\ Cardinality({k \in ReportsOfTask(i) : reports[k].fallbackFor # NoId}) <= 1
           /\ Cardinality(ReportsOfTask(i)) <= 2
           /\ FallbackFailed(i) =>
                  /\ pc[i] = "done"
                  /\ Cardinality(ReportsOfTask(i)) = 2
    /\ Len(reports) <= 2 * Len(providerIds)
    /\ phase = "dispatching" =>
           ((\A i \in Tasks : pc[i] = "done") \/ Running # {})

\* C12: the fallback is single-level (C12_OneLevel holds in every state), and
\* the dispatch terminates: while it runs some call is in flight or it can
\* return, and every step lowers the bound of the steps left, also when the
\* fallback references form a cycle.
C12_SingleLevelFallback == []C12_OneLevel /\ [][StepsLeft' < StepsLeft]_vars

\* a fallback failed whose own fallback is registered, configured with a key
\* that resolves, and not selected
C12_Witness ==
    /\ phase = "returned"
    /\ \E i \in Tasks :
           /\ FallbackFailed(i)
           /\ LET R == fallbackOf(fbOf[i]) IN
              /\ R \in Registered \cap Configured
              /\ keyResolves(R)
              /\ ~Contains(providerIds, R)

IsAsyncSubmitted(e) == e.event = "async-submitted"

IsAsyncPendingAt(k) == reports[k].status = "async-pending"

\* the positions of the async-pending reports, in the order of the reports
PendingPositions == SelectSeq([k \in 1..Len(reports) |-> k], IsAsyncPendingAt)

\* the task whose submit returned the k-th handle of asyncTasks: the handle
\* and the async-pending report are pushed together
HandleOwner(k) == owner[PendingPositions[k]]

\* C20 as stated: the handles are in the order in which their submits were
\* invoked (tasks are started, and call submit, in the order of their index),
\* also when a later submit returns first.
C20_SubmissionOrder_AsStated ==
    /\ Len(PendingPositions) = Len(asyncTasks)
    /\ \A a, b \in 1..Len(asyncTasks) : a < b => HandleOwner(a) < HandleOwner(b)

\* C20 as amended: the handles are in the order in which the submit calls
\* returned them, which is the order of the async-submitted events and of the
\* async-pending reports; with maxParallel = 1 this is the order in which the
\* submits were invoked.
C20_SubmissionOrder ==
    /\ Len(PendingPositions) = Len(asyncTasks)
    /\ \A k \in 1..Len(asyncTasks) :
           /\ asyncTasks[k].provider = reports[PendingPositions[k]].id
           /\ asyncTasks[k].provider = providerIds[HandleOwner(k)]
           /\ asyncTasks[k].status = hist[HandleOwner(k)].submit
    /\ [k \in 1..Len(asyncTasks) |-> asyncTasks[k].provider]
         = [k \in 1..Len(SelectSeq(events, IsAsyncSubmitted)) |->
               SelectSeq(events, IsAsyncSubmitted)[k].providerId]
    /\ maxParallel = 1 =>
           \A a, b \in 1..Len(asyncTasks) : a < b => HandleOwner(a) < HandleOwner(b)

\* two providers were submitted at once and the one invoked second returned
\* its handle first
C20_Witness ==
    /\ phase = "returned"
    /\ Len(asyncTasks) = 2
    /\ asyncTasks[1].provider # asyncTasks[2].provider
    /\ HandleOwner(1) = 2
    /\ HandleOwner(2) = 1

\* ---------------------------------------------------------------- handle store
\* the status the store holds for the handle of provider p with taskId t
KeyStatus(st, p, t) ==
    IF \E k \in 1..Len(st) : st[k].provider = p /\ st[k].taskId = t
    THEN st[CHOOSE k \in 1..Len(st) : st[k].provider = p /\ st[k].taskId = t].status
    ELSE "absent"

HandleKeys == HandleProviders \X (1..MaxHandles)

\* the handle whose poll or retrieve is awaited
Awaited ==
    IF stPc = "poll" THEN remaining[cursor] ELSE retrieveList[cursor]

\* C13: in every step the persisted status of a completed handle does not go
\* back to pending or running, and a poll's update changes the status of no
\* handle but the polled one, handles being told apart by provider and taskId.
C13_StoreMonotone ==
    [][ /\ \A key \in HandleKeys :
              KeyStatus(store, key[1], key[2]) = "completed"
                  => KeyStatus(store', key[1], key[2]) \notin {"pending", "running"}
        /\ stPc = "poll" =>
              \A key \in HandleKeys :
                  key # <<Awaited.provider, Awaited.taskId>>
                      => KeyStatus(store', key[1], key[2]) = KeyStatus(store, key[1], key[2])
      ]_vars

\* C14: a handle leaves the store only in the step in which its own retrieve
\* returned a result without error and the two artifact files and the store
\* were written; every other step keeps every handle.
C14_RemovedOnlyAfterRetrieval ==
    [][ \A key \in HandleKeys :
            ( /\ KeyStatus(store, key[1], key[2]) # "absent"
              /\ KeyStatus(store', key[1], key[2]) = "absent" )
            => /\ stPc = "retrieve"
               /\ key = <<Awaited.provider, Awaited.taskId>>
               /\ retrieveLog' = Append(retrieveLog, RetrieveEntry(Awaited, "ok", 3))
      ]_vars

\* C15: once asyncTimeout has elapsed the polling loop has been left: no poll
\* is awaited and no further sleep is started.
C15_WaitBounded ==
    elapsed >= AsyncTimeoutSleeps => stPc \notin {"poll", "sleep"}

\* C16: when status --wait is over, the store holds no pending or running
\* handle of a provider without poll (or not registered): the sweep persisted
\* it as failed, with completedAt.
C16_NoPollPersistedFailed ==
    (stPc = "done" /\ optWait) =>
        \A k \in 1..Len(store) :
            ~canPoll(store[k].provider) => ~IsActive(store[k])

\* C17: when status --wait --retrieve returns, every completed handle in the
\* store whose provider supports retrieve has had a retrieve call that failed
\* (it threw, returned an error, or a write failed); those whose retrieve
\* succeeded are gone, the handles completed before the command included.
C17_WaitThenRetrieve ==
    (stPc = "done" /\ optWait /\ optRetrieve) =>
        \A k \in 1..Len(store) :
            (IsCompleted(store[k]) /\ canRetrieve(store[k].provider)) =>
                \E j \in 1..Len(retrieveLog) :
                    /\ retrieveLog[j].provider = store[k].provider
                    /\ retrieveLog[j].taskId = store[k].taskId
                    /\ (retrieveLog[j].result # "ok" \/ retrieveLog[j].writes < 3)

\* ---------------------------------------------------------------- round trip
\* run ended normally after the submit of its only provider returned a
\* pending handle
S6Submitted == phase = "exited" /\ hist[1].submit = "pending"

\* status --wait followed: its polls answered running, running, completed and
\* each answer was recorded; the provider defines retrieve
S6Polled ==
    /\ S6Submitted
    /\ optWait
    /\ pollScript = Len(S6Script)
    /\ canRetrieve(providerIds[1])

\* what run leaves behind in scenario S6, and that status polls three times
S6RunAndPolls ==
    /\ (S6Submitted /\ stPc = "idle") =>
           /\ reports = <<Report(providerIds[1], tierOf(providerIds[1]),
                                 "async-pending", NoErr, NoId)>>
           /\ store = <<Handle(providerIds[1], 1, "pending")>>
    /\ S6Polled =>
           /\ stPc \in {"retrieve", "done"}
           /\ elapsed = Len(S6Script) - 1
           /\ stPc = "retrieve" =>
                  (retrieveLog = <<>> /\ KeyStatus(store, providerIds[1], 1) = "completed")
           /\ stPc = "done" => Len(retrieveLog) = 1

Unrouted(id) == id \notin Registered \/ ~(id \in Configured /\ enabledOf(id))

\* the one report dispatch pushes for an unrouted id
UnroutedReport(id) ==
    IF id \notin Registered
    THEN Report(id, "raw-search", "error", ErrNotFound, NoId)
    ELSE Report(id, tierOf(id), "skipped", ErrNotEnabled, NoId)

\* C21: a selected id with no registered provider yields the error report
\* 'Provider "<id>" not found', and a registered provider whose config entry is
\* absent or has enabled=false yields a skipped report; no progress event
\* names the id, none of its operations is called, its task attempts no
\* fallback and holds no slot, and every other selected provider has been
\* dispatched when dispatch returns.
C21_UnroutedReported ==
    \A i \in Tasks :
        Unrouted(providerIds[i]) =>
            LET id == providerIds[i] IN
            /\ pc[i] \in {"queued", "done"}
            /\ pc[i] = "done" =>
                   \E k \in 1..Len(reports) :
                       /\ ReportsOfTask(i) = {k}
                       /\ reports[k] = UnroutedReport(id)
            /\ \A n \in 1..Len(events) :
                   events[n].providerId # id /\ events[n].report # id
            /\ \A c \in calls : c.id # id /\ c.task # i
            /\ NoFallbackBy(i)
            /\ phase = "returned" =>
                   \A j \in Tasks :
                       /\ ReportsOfTask(j) # {}
                       /\ ~Unrouted(providerIds[j]) =>
                              \E c \in calls : c.task = j /\ c.role = "primary"

\* an unregistered id was selected first and reported as not found, and the
\* provider selected after it was executed and succeeded
C21_Witness ==
    /\ phase = "returned"
    /\ Len(providerIds) = 2
    /\ providerIds[1] \notin Registered
    /\ reports[1] = UnroutedReport(providerIds[1])
    /\ owner[1] = 1
    /\ hist[2].execute = "ok"
    /\ reports[2].status = "success"

\* the key of the provider is missing: it is configured and enabled, and its
\* apiKey reference does not resolve to a non-empty string
KeyMissing(id) ==
    id \in Registered /\ id \in Configured /\ enabledOf(id) /\ ~keyResolves(id)

\* C22: a selected provider that is enabled but whose API key is missing yields
\* exactly one report, with status skipped; none of its operations is called
\* and no fallback is attempted for it.
C22_MissingKeySkipped ==
    \A i \in Tasks :
        KeyMissing(providerIds[i]) =>
            /\ pc[i] \in {"queued", "done"}
            /\ pc[i] = "done" =>
                   \E k \in 1..Len(reports) :
                       /\ ReportsOfTask(i) = {k}
                       /\ reports[k].status = "skipped"
            /\ \A c \in calls : c.task # i
            /\ NoFallbackBy(i)

\* the tasks whose primary was recovered: the task pushed a fallback report
\* with status success
RecoveredTasks ==
    {i \in Tasks :
        \E k \in ReportsOfTask(i) :
            reports[k].fallbackFor # NoId /\ reports[k].status = "success"}

\* C23: when run has derived its exit code, the number of reports counted for
\* it equals the size of the selection minus the number of primaries recovered
\* by a successful fallback.
C23_FallbackAccounting ==
    phase = "exited" =>
        CountedReports(reports) = Len(providerIds) - Cardinality(RecoveredTasks)

\* ------------------------------------------------- claims on the http client
HttpEnded == hpc \in {"returned", "threw"}

\* the attempt ended the way the retry policy names: a network error, the
\* timeout of the attempt, or a 5xx or 429 response
PolicyRetry(a) ==
    \/ a.end \in {"network", "timeout"}
    \/ a.end = "status" /\ (a.status >= 500 \/ a.status = 429)

\* the responses of scenario S3 before the last one
S3Failures == <<[status |-> 500, end |-> "status"], [status |-> 500, end |-> "status"]>>

\* C24: httpRequest makes a further attempt only after a network error, a
\* per-attempt timeout, a 5xx response or a 429 response; it makes at most
\* MAX_RETRIES retries, that is at most MAX_RETRIES + 1 fetches; before the
\* k-th retry it sleeps INITIAL_RETRY_DELAY_MS * 2^(k-1); for the responses
\* [500, 500, 200] it returns the 200 response after exactly 3 fetches and
\* sleeps of 1 and 2 times the base delay.
C24_RetryPolicy ==
    /\ Len(delays) <= MAX_RETRIES
    /\ fetchCount <= MAX_RETRIES + 1
    /\ fetchCount <= Len(delays) + 1
    /\ \A k \in 1..Len(delays) :
           /\ delays[k] = INITIAL_RETRY_DELAY_MS * 2^(k - 1)
           /\ PolicyRetry(attemptLog[k])
    /\ (HttpEnded /\ ~aborted /\ attemptLog = S3Failures /\ response = 200) =>
           /\ result.kind = "response" /\ result.status = 200
           /\ fetchCount = 3
           /\ delays = <<INITIAL_RETRY_DELAY_MS, 2 * INITIAL_RETRY_DELAY_MS>>

\* a 4xx status other than 429
ClientError(status) == status \in 400..499 /\ status # 429

AbortReported ==
    (hasSignal /\ aborted /\ HttpEnded) =>
        hpc = "threw" /\ result.kind = "error" /\ result.error = ErrAborted

\* C26: once the caller's signal is aborted (before the first attempt, while a
\* fetch or a body read is in flight, or during a sleep between retries) no
\* fetch is started any more, and the call ends with the error 'Request
\* aborted', never with a timeout error, a network error or a response.
C26_ExternalAbort ==
    /\ []AbortReported
    /\ [][(hasSignal /\ aborted) => fetchCount' = fetchCount]_vars

\* the signal was aborted while the last fetch allowed was in flight
C26_Witness ==
    /\ hpc = "threw"
    /\ aborted
    /\ result.error = ErrAborted
    /\ fetchCount = MAX_RETRIES + 1
    /\ attemptLog[Len(attemptLog)] = [status |-> 0, end |-> "aborted"]

\* C27: every response httpRequest returns, whatever its status, has a text of
\* at most MAX_RESPONSE_SIZE; a text above the cap makes the request fail,
\* and is never followed by a retry.
C27_ResponseSizeCap ==
    /\ hpc = "returned" => result.size <= MAX_RESPONSE_SIZE
    /\ \A k \in 1..Len(attemptLog) :
           attemptLog[k].end = "size" => (hpc = "threw" /\ k = Len(attemptLog))

\* ------------------------------------------------ claims on legacy ids
\* C28: a legacy id in providerIds, whose canonical provider is registered,
\* configured and enabled in the loaded config, runs that provider: its task
\* calls submit or execute, and its report is neither the not-found error nor
\* a skipped report.
C28_LegacySelection ==
    \A i \in Tasks :
        LET id == providerIds[i]
            canonical == resolveProviderId(id)
        IN (/\ id \in LegacyIds
            /\ canonical \in Registered
            /\ canonical \in Configured /\ enabledOf(canonical)
            /\ pc[i] = "done") =>
               /\ \E c \in calls : c.task = i /\ c.role = "primary"
               /\ \A k \in ReportsOfTask(i) :
                      /\ reports[k].status # "skipped"
                      /\ reports[k].error # ErrNotFound

\* ------------------------------------------------ claims on the config layer
ConfigLoaded == cpc \in {"loaded", "merged"}

Canonical(id) == IF id = NoId THEN NoId ELSE resolveProviderId(id)

\* the entry of the file under the given key
FileEntry(id) == file.providers[CHOOSE k \in 1..Len(file.providers) : file.providers[k].id = id]

FileKeys == {file.providers[k].id : k \in 1..Len(file.providers)}

\* the groups of the file with the default groups it does not replace
FileGroups == Spread(DEFAULT_GROUPS, file.groups)

\* the first position in the members at which the canonical id c is named
FirstSeen(members, c) ==
    CHOOSE i \in 1..Len(members) :
        /\ resolveProviderId(members[i]) = c
        /\ \A j \in 1..(i - 1) : resolveProviderId(members[j]) # c

\* out is the canonical ids of the members, each once, in first-seen order
DedupedInOrder(members, out) ==
    /\ {out[i] : i \in 1..Len(out)} = {resolveProviderId(members[i]) : i \in 1..Len(members)}
    /\ \A a, b \in 1..Len(out) :
           a < b => FirstSeen(members, out[a]) < FirstSeen(members, out[b])

\* C29: after loadConfig no legacy id remains as a provider key, as a group
\* member or as a fallback target: each key and each fallback is replaced by
\* its canonical id, and the members of each group are the canonical ids, each
\* once, in first-seen order; when a legacy key and its canonical key are both
\* in the file, the entry kept is the one of the canonical key, whatever the
\* order of the two keys, and a warning names the legacy key; migrating the
\* loaded config again changes nothing.
C29_LegacyMigration ==
    ConfigLoaded =>
        /\ \A k \in 1..Len(loaded.providers) :
               LET entry == loaded.providers[k] IN
               /\ entry.id \notin LegacyIds
               /\ entry.fallback \notin LegacyIds
               /\ entry.value \in FileKeys
               /\ entry.id = resolveProviderId(entry.value)
               /\ entry.fallback = Canonical(FileEntry(entry.value).fallback)
               /\ \A j \in 1..Len(loaded.providers) :
                      loaded.providers[j].id = entry.id => j = k
        /\ {loaded.providers[k].id : k \in 1..Len(loaded.providers)}
               = {resolveProviderId(id) : id \in FileKeys}
        /\ DOMAIN loaded.groups = DOMAIN FileGroups
        /\ \A name \in DOMAIN loaded.groups :
               /\ \A i \in 1..Len(loaded.groups[name]) :
                      loaded.groups[name][i] \notin LegacyIds
               /\ DedupedInOrder(FileGroups[name], loaded.groups[name])
        /\ \A id \in FileKeys :
               (id \in LegacyIds /\ resolveProviderId(id) \in FileKeys) =>
                   /\ \E k \in 1..Len(loaded.providers) :
                          /\ loaded.providers[k].id = resolveProviderId(id)
                          /\ loaded.providers[k].value = resolveProviderId(id)
                   /\ \E w \in 1..Len(warnings) : warnings[w].id = id
        /\ migrateLegacyProviderIds(loaded).config = loaded

\* the file holds the legacy key before its canonical key, each with a legacy
\* fallback, and a group naming both: the canonical entry was kept and the
\* group was rewritten to one member
C29_Witness ==
    /\ cpc = "loaded"
    /\ Len(file.providers) = 2
    /\ file.providers[1] = [id |-> "l", value |-> "l", fallback |-> "k"]
    /\ file.providers[2] = [id |-> "e", value |-> "e", fallback |-> "k"]
    /\ loaded.providers = <<[id |-> "e", value |-> "e", fallback |-> "d"]>>
    /\ DOMAIN file.groups = {"mine"}
    /\ file.groups["mine"] = <<"k", "l", "e">>
    /\ loaded.groups["mine"] = <<"d", "e">>
    /\ Len(warnings) > 0

\* the value a layer defines for a key, Undefined when it defines none
ProjectValue(key) ==
    IF project.kind = "object" /\ project.hasDefaults
    THEN project.defaults[key] ELSE Undefined

CliValue(key) == IF cliFlags.kind = "object" THEN cliFlags.flags[key] ELSE Undefined

\* the result of the merge, layer by layer
MergedAsLayered ==
    cpc = "merged" =>
        /\ DOMAIN merged.defaults = DefaultKeys
        /\ \A key \in DefaultKeys :
               merged.defaults[key] =
                   IF CliValue(key) # Undefined THEN CliValue(key)
                   ELSE IF ProjectValue(key) # Undefined THEN ProjectValue(key)
                   ELSE loaded.defaults[key]
        /\ merged.providers = loaded.providers
        /\ merged.groups = loaded.groups

\* C30: for every key of defaults, mergeConfigs yields the CLI value if it is
\* defined, otherwise the project value if it is defined, otherwise the global
\* value; the providers and the groups of the result are those of the global
\* config; and the call leaves the global config, the project config and the
\* flags as they were.
C30_LayeredMerge ==
    /\ []MergedAsLayered
    /\ [][(cpc = "loaded" /\ cpc' = "merged") =>
             (loaded' = loaded /\ project' = project /\ cliFlags' = cliFlags)]_vars

\* the three layers each decide one key: the CLI gives the empty string, the
\* project a value the CLI leaves undefined, and the global config the rest
C30_Witness ==
    /\ cpc = "merged"
    /\ project.kind = "object" /\ project.hasDefaults
    /\ cliFlags.kind = "object"
    /\ project.defaults = [outputDir |-> "P", maxParallel |-> "P", mode |-> Undefined]
    /\ cliFlags.flags = [outputDir |-> Undefined, maxParallel |-> "", mode |-> Undefined]
    /\ merged.defaults = [outputDir |-> "P", maxParallel |-> "", mode |-> "G"]
    /\ Len(merged.providers) = 1

\* ---------------------------------------------------------------- C31, C33
InitializeDone == plug.pc = "done"

CustomRegistered == {r \in plug.registry : r.source \in {"npm", "script"}}

ConfiguredCustomIds == {plug.custom[k].id : k \in 1..Len(plug.custom)}

Occurs(s, x) == Cardinality({k \in 1..Len(s) : s[k] = x})

Warned(kind, id) == \E k \in 1..Len(plug.warnings) : plug.warnings[k] = [kind |-> kind, id |-> id]

\* C31: after initializeProviders every registered provider of source npm or
\* script has an id that is trusted and is not a built-in id; with no trusted
\* id none is registered; a custom entry whose id is a built-in id is skipped
\* with a warning and the built-in provider stays registered under that id,
\* trusted or not.
C31_TrustGate ==
    InitializeDone =>
        /\ \A r \in CustomRegistered : r.id \in plug.trusted /\ r.id \notin builtIns
        /\ plug.trusted = {} => CustomRegistered = {}
        /\ \A id \in ConfiguredCustomIds \cap builtIns :
              /\ Occurs(plug.skippedIds, id) = 1
              /\ Occurs(plug.loadedIds, id) = 0
              /\ Warned("conflict", id)
              /\ \A r \in plug.registry : r.id = id => r.source = "builtin"
        /\ \A id \in builtIns : [id |-> id, source |-> "builtin"] \in plug.registry

C31_Witness ==
    /\ InitializeDone
    /\ "e" \in ConfiguredCustomIds \cap plug.trusted
    /\ CustomRegistered # {}

ScriptRunning == scriptOp.pc = "running"

TimedOut == [kind |-> "rejected", value |-> "timed out"]

\* what the close listener makes of stdout
OutcomeOfOutput(stdout) ==
    CASE stdout = "" -> [kind |-> "rejected", value |-> "no JSON response"]
      [] stdout = "json" -> [kind |-> "resolved", value |-> "parsed"]
      [] OTHER -> [kind |-> "rejected", value |-> "invalid JSON"]

\* the promise settles at most once, the timer fires at its delay against a
\* child that has not closed, and a child that closed first decides the outcome
SettlesOnce ==
    ScriptRunning =>
        /\ scriptOp.settlements <= 1
        /\ scriptOp.settled <=> scriptOp.settlements = 1
        /\ scriptOp.clock > scriptOp.delay => scriptOp.settled
        /\ scriptOp.timer = "fired" =>
              /\ scriptOp.firedAt = scriptOp.delay
              /\ scriptOp.outcome = TimedOut
              /\ scriptOp.child \in {"killed", "closed"}
              /\ scriptOp.closedAt = 0 - 1 \/ scriptOp.closedAt >= scriptOp.firedAt
        /\ scriptOp.settled /\ scriptOp.timer # "fired" =>
              /\ scriptOp.timer = "cleared"
              /\ scriptOp.closedAt \in 0..scriptOp.delay
              /\ scriptOp.child = "errored" =>
                    scriptOp.outcome = [kind |-> "rejected", value |-> "Failed to start"]
              /\ scriptOp.child = "closed" =>
                    scriptOp.outcome \in {OutcomeOfOutput(scriptOp.stdout),
                                          [kind |-> "rejected", value |-> "Failed to start"]}

\* later events change neither the outcome nor the timer
OutcomeKept ==
    /\ scriptOp.pc = "running" /\ scriptOp.settled =>
          scriptOp'.settled /\ scriptOp'.outcome = scriptOp.outcome
    /\ scriptOp.pc = "running" /\ scriptOp.timer \in {"cleared", "fired"} =>
          scriptOp'.timer = scriptOp.timer

\* the delays of the operations, options.timeout rounded down to whole seconds
DelayRoundedDown ==
    ScriptRunning =>
        /\ scriptOp.operation \in {"describe", "poll", "test"} =>
              scriptOp.delay = 30 * TicksPerSecond
        /\ scriptOp.operation = "retrieve" => scriptOp.delay = 120 * TicksPerSecond
        /\ scriptOp.operation \in {"execute", "submit"} =>
              /\ scriptOp.delay >= TicksPerSecond
              /\ scriptOp.delay % TicksPerSecond = 0
              /\ scriptOp.options.given /\ scriptOp.options.ticks >= TicksPerSecond =>
                    /\ scriptOp.delay <= scriptOp.options.ticks
                    /\ scriptOp.delay > scriptOp.options.ticks - TicksPerSecond
              /\ ~(scriptOp.options.given /\ scriptOp.options.ticks >= TicksPerSecond) =>
                    scriptOp.delay = TicksPerSecond

BucketOf(key) ==
    {k \in 1..Len(norm.citations) :
        /\ norm.citations[k].url # EmptyUrl
        /\ normalizeUrl(norm.citations[k].url) = key}

Min(S) == CHOOSE x \in S : \A y \in S : x <= y

CitedKeys ==
    {normalizeUrl(norm.citations[k].url) :
        k \in {j \in 1..Len(norm.citations) : norm.citations[j].url # EmptyUrl}}

\* the first position in the bucket at which the provider occurs
FirstBy(key, provider) ==
    Min({k \in BucketOf(key) : norm.citations[k].provider = provider})

Titled(key) == {k \in BucketOf(key) : ~NoTitle(norm.citations[k].title)}

EntryAsSpecified(e) ==
    LET bucket == BucketOf(e.normalizedUrl)
    IN  /\ bucket # {}
        /\ e.citationCount = Cardinality(bucket)
        /\ e.url = norm.citations[Min(bucket)].url
        /\ {e.providers[k] : k \in 1..Len(e.providers)}
              = {norm.citations[k].provider : k \in bucket}
        /\ \A j, k \in 1..Len(e.providers) :
              j < k => FirstBy(e.normalizedUrl, e.providers[j])
                          < FirstBy(e.normalizedUrl, e.providers[k])
        /\ IF Titled(e.normalizedUrl) # {}
           THEN e.title = norm.citations[Min(Titled(e.normalizedUrl))].title
           ELSE NoTitle(e.title)

SumCounts(sources) ==
    LET RECURSIVE Sum(_)
        Sum(s) == IF s = <<>> THEN 0 ELSE Head(s).citationCount + Sum(Tail(s))
    IN  Sum(sources)

\* the sources scenario S1 expects
S1Sources ==
    <<[url |-> UrlA, normalizedUrl |-> <<"a.com", "/", "x">>, title |-> Undefined,
       providers |-> <<"p1", "p2", "p3">>, citationCount |-> 3],
      [url |-> UrlB, normalizedUrl |-> <<"b.org", "/", "x">>, title |-> Undefined,
       providers |-> <<"p1">>, citationCount |-> 1]>>

\* C34: deduplicateSources returns one entry per distinct normalizedUrl among
\* the citations with a non-empty url; its citationCount is the size of its
\* bucket, its providers the distinct providers of the bucket in first-seen
\* order, its url the first original url, its title the first non-empty title;
\* the entries are sorted by citationCount descending and entries of equal
\* count keep the order in which their buckets were first seen (S1 included).
C34_Deduplication ==
    norm.pc = "sources" =>
        LET s == norm.sources IN
        /\ {s[k].normalizedUrl : k \in 1..Len(s)} = CitedKeys
        /\ Len(s) = Cardinality(CitedKeys)
        /\ \A k \in 1..Len(s) : EntryAsSpecified(s[k])
        /\ SumCounts(s)
              = Cardinality({k \in 1..Len(norm.citations) :
                                norm.citations[k].url # EmptyUrl})
        /\ \A j, k \in 1..Len(s) :
              j < k =>
                 \/ s[j].citationCount > s[k].citationCount
                 \/ /\ s[j].citationCount = s[k].citationCount
                    /\ Min(BucketOf(s[j].normalizedUrl)) < Min(BucketOf(s[k].normalizedUrl))
        /\ norm.citations = S1Citations => s = S1Sources

C34_Witness ==
    /\ norm.pc = "sources"
    /\ Len(norm.sources) = 2
    /\ norm.sources[1].citationCount = norm.sources[2].citationCount
    /\ norm.sources[1].url = UrlB
    /\ Len(norm.citations) = 3
    /\ norm.citations[2].url = EmptyUrl


\* C35: two urls that differ only in scheme, in a leading www., in a slash
\* ending the path or in tracking parameters get the same key from
\* normalizeUrl, with or without other query parameters or a fragment.
C35_NormalizationCollapses ==
    norm.pc = "keys" => norm.keyU = norm.keyV

\* without query and fragment the keys of such a pair are the same
C35_WithoutQueryAndFragment ==
    norm.pc = "keys" /\ DeleteTracking(norm.u.params) = <<>> /\ norm.u.hash = "" =>
        norm.keyU = norm.keyV

\* ---------------------------------------------------------------- C36
\* the target holds its complete previous content or the complete new content
TargetWhole ==
    disk.pc # "off" =>
        /\ disk.target \in {disk.before, disk.content}
        /\ disk.target # Partial
        /\ disk.pc \in {"write", "rename", "unlink"} => disk.target = disk.before

WriteReturned == disk.pc = "idle" /\ disk.last = "returned"

WriteThrown == disk.pc = "idle" /\ disk.last = "thrown"

\* C36 as stated: the target always holds its complete previous content or
\* the complete new content; when the write of the temporary file or the
\* rename fails the error is rethrown, the target keeps its previous content
\* and no temporary file is left behind.
C36_AtomicWrite_AsStated ==
    /\ TargetWhole
    /\ WriteReturned => disk.target = disk.content
    /\ WriteThrown => disk.target = disk.before /\ disk.tmps = {}

\* C36: the target always holds its complete previous content or the complete
\* new content; when the write of the temporary file or the rename fails the
\* error is rethrown and the target keeps its previous content; the temporary
\* file is removed unless its removal fails too, and a call that returns
\* leaves none.
C36_AtomicWrite ==
    /\ TargetWhole
    /\ WriteReturned => disk.target = disk.content /\ Tmp(disk) = {}
    /\ WriteThrown => disk.target = disk.before
    /\ disk.pc \in {"idle", "write"} => {t.n : t \in disk.tmps} = disk.kept

C36_Witness ==
    /\ WriteThrown
    /\ disk.n = 2
    /\ disk.target = "c1"
    /\ disk.content = "c2"
    /\ disk.kept = {}

\* ---------------------------------------------------------------- C37
SubmitSettled(i) == hist[i].submit # "none"

\* C37: for a provider on the async path execute is called iff its submit
\* threw; once submit has returned a handle, execute is not called for that
\* provider in this dispatch.
C37_FallThroughOnlyOnSubmitThrow ==
    \A i \in Tasks :
        SubmitCalled(i) /\ SubmitSettled(i) =>
            (ExecuteCalled(i) <=> hist[i].submit = "throw")

\* ---------------------------------------------------------------- C38
\* provider and taskId together name one handle of the store
UniqueTaskIds ==
    \A a, b \in 1..Len(store) : a # b => store[a].taskId # store[b].taskId

\* C38: the polling loop polls no handle that has reached a terminal status:
\* a handle whose poll returned cancelled (or completed, or failed), and whose
\* status was persisted, is not polled again.
C38_NoPollAfterTerminal ==
    stPc = "poll" /\ UniqueTaskIds =>
        \A k \in 1..Len(store) :
            ( /\ store[k].provider = remaining[cursor].provider
              /\ store[k].taskId = remaining[cursor].taskId ) => IsActive(store[k])

\* ---------------------------------------------------------------- C39
PendingReports(id) ==
    {k \in 1..Len(reports) : reports[k].id = id /\ reports[k].status = "async-pending"}

HandlesOf(id) == {k \in 1..Len(asyncTasks) : asyncTasks[k].provider = id}

\* C39: when dispatch returns, the async-pending reports and the handles of
\* asyncTasks correspond one to one; every handle has the outputDir of the
\* dispatch and a status that is pending or running.
C39_PendingReportsMatchHandles ==
    phase = "returned" =>
        /\ \A id \in Ids : Cardinality(PendingReports(id)) = Cardinality(HandlesOf(id))
        /\ \A k \in 1..Len(asyncTasks) :
              /\ asyncTasks[k].outputDir = "outputDir"
              /\ asyncTasks[k].status \in {"pending", "running"}

\* ---------------------------------------------------------------- C40
EventsOf(id, kinds) ==
    {k \in 1..Len(events) : events[k].providerId = id /\ events[k].event \in kinds}

TerminalEvents == {"completed", "error", "async-submitted"}

AllEvents == TerminalEvents \cup {"started", "fallback-started"}

SelectedAndRouted(id) ==
    /\ Contains(providerIds, id)
    /\ getProvider(id) # NoId
    /\ id \in Configured /\ enabledOf(id)

EventOrder(id) ==
    /\ Cardinality(EventsOf(id, {"started"})) = 1
    /\ \A j \in EventsOf(id, {"started"}), k \in EventsOf(id, AllEvents) : j <= k
    /\ Cardinality(EventsOf(id, TerminalEvents)) = 1
    /\ Cardinality(EventsOf(id, TerminalEvents))
          <= Cardinality({k \in 1..Len(reports) : reports[k].id = id})

FallbackEventOrder ==
    \A k \in 1..Len(events) :
        events[k].event = "fallback-started" =>
            /\ \E j \in 1..(k - 1) :
                  events[j].providerId = events[k].report /\ events[j].event = "error"
            /\ \E m \in (k + 1)..Len(events) :
                  /\ events[m].providerId = events[k].providerId
                  /\ events[m].event \in {"completed", "error"}

\* C40: when dispatch returns, every selected provider that is registered and
\* enabled has exactly one started event, which precedes its other events, and
\* exactly one terminal event (completed, error or async-submitted), with its
\* report recorded; a fallback-started event of fallback Q for primary P comes
\* after P's error event and before Q's completed or error event.
C40_EventOrdering ==
    phase = "returned" =>
        /\ \A id \in Ids : SelectedAndRouted(id) => EventOrder(id)
        /\ FallbackEventOrder

\* the same for a selection that names no id twice
C40_DistinctSelection ==
    (\A a, b \in Tasks : a # b => providerIds[a] # providerIds[b]) => C40_EventOrdering

====
